---- MODULE Spec2Model ----
(***************************************************************************)
(* Model of the file ledger (pkg/files/map.go) and of the file event       *)
(* reconciler (pkg/files/events.go and the monitor it belongs to) of mon.  *)
(*                                                                         *)
(* LedgerSpec drives the FileMap directly, one whole method per step.      *)
(* Spec runs the Monitor: the main loop goroutine (Run, handleEvent,       *)
(* handleCreate, handleRemoveOrRename), the pending-delete sweeper         *)
(* goroutine (processPendingDeletes) and the consumer of the unbuffered    *)
(* Events channel, interleaved at the points where the code takes or       *)
(* releases a lock or blocks on a channel.                                 *)
(***************************************************************************)
EXTENDS Integers, Sequences, FiniteSets, TLC

VARIABLES
    files,          \* FileMap.files: path -> FileInfo, DOMAIN = tracked paths
    filesCreated,   \* FileMap.filesCreated
    filesDeleted,   \* FileMap.filesDeleted
    lastOp,         \* history: the last FileMap method called directly and its result
    pendingDeletes, \* Monitor.pendingDeletes: path -> pendingDelete
    mainPc,         \* position of the goroutine running Monitor.Run
    cur,            \* the notification the main loop is handling
    curPd,          \* the pendingDelete handleRemoveOrRename has built and not yet stored
    sweepPc,        \* position of the goroutine running processPendingDeletes
    todo,           \* keys the current sweeper pass has still to visit
    sweepEv,        \* the event the sweeper is sending on Events
    reported,       \* number of notifications read from watcher.Events so far
    delivered,      \* history: per path, the last event received from the Events channel
    fault,          \* TRUE once a goroutine has panicked (nil FileInfo dereference)
    hist,           \* history kept for the properties; no action's guard reads it
    manifest,       \* a python listener's RequirementsFile and the FileDiff it last returned
    race,           \* position of a goroutine inside FileMap.Delete, step by step
    git,            \* the git Monitor: its goroutines, its context and its GitEvents channel
    life,           \* the file Monitor's context, watcher, WaitGroup and Close
    fs,             \* the tree below the root, the watched directories and the watcher's queue
    mon             \* Mon: a listener's manifests, the cached diff, lastWrite and the handlers

ledgerVars == <<files, filesCreated, filesDeleted>>
monitorVars == <<pendingDeletes, mainPc, cur, curPd, sweepPc, todo, sweepEv, reported, delivered, fault>>
\* the state of the components the ledger and the reconciler do not touch
otherVars == <<manifest, race, git, life, fs, mon>>
vars == <<files, filesCreated, filesDeleted, lastOp, pendingDeletes, mainPc, cur, curPd,
          sweepPc, todo, sweepEv, reported, delivered, fault, hist, manifest, race, git, life, fs,
          mon>>

\* no FileDiff has been returned
NoDiff == [returned |-> FALSE, newDependencies |-> {}, deletedDependencies |-> {},
           updatedDependencies |-> {}]

\* python.New: the listener tracks no requirements file
NoManifest == [tracked |-> FALSE, initialContent |-> <<>>, latestContent |-> <<>>,
               diff |-> NoDiff]

\* no Delete is under way
NoRace == [pc |-> "idle", top |-> <<>>, path |-> <<>>, recursive |-> FALSE, isDir |-> FALSE,
           pending |-> {}, toDelete |-> {}]

\* the goroutines of the git Monitor, by the context they were started with
Background == "Background"
RunCtx == "ctx"

\* git.EventType
EventTypeNewCommit == "new_commit"
EventTypeCommitPush == "commit_push"

\* no git Monitor has been made
NoGit == [made |-> FALSE, run |-> "off", cancelled |-> FALSE, closed |-> FALSE,
          watcherClosed |-> FALSE, commits |-> 0, numCommits |-> 0, spawned |-> 0,
          updates |-> [c \in {Background, RunCtx} |-> 0],
          pushers |-> [k \in {Background, RunCtx} \X {EventTypeNewCommit, EventTypeCommitPush}
                          |-> 0],
          GitEvents |-> <<>>, panicked |-> FALSE, head |-> 0, lastProcessedHash |-> 0]

\* the context is live, the watcher open, Close has not been called
NoLife == [cancelled |-> FALSE, watcherClosed |-> FALSE, wg |-> 0, close |-> "no"]

\* no tree is looked at and the watcher has handed over no notification
NoFs == [disk |-> <<>>, initial |-> <<>>, watched |-> {}, queue |-> {},
         event |-> [name |-> <<>>, op |-> {}, outcome |-> "none"]]

\* no Mon has been made
NoMon == [kind |-> "none", files |-> <<>>, lastWrite |-> 0, cached |-> FALSE, cache |-> <<>>,
          handlers |-> <<>>, inits |-> <<>>, logged |-> <<>>]

OthersIdle ==
    /\ manifest = NoManifest
    /\ race = NoRace
    /\ git = NoGit
    /\ life = NoLife
    /\ fs = NoFs
    /\ mon = NoMon

----------------------------------------------------------------------------
(* Paths are strings of characters, so that strings.HasPrefix is computed. *)

PathD == <<"d">>
PathDF == <<"d", "/", "f">>
PathD2 == <<"d", "2">>
Paths == {PathD, PathDF, PathD2}

\* Bounds of the model.
MaxWrites == 2
MaxCount == 2
MaxNotifications == 3

\* strings.HasPrefix(path, parentPath)
HasPrefix(path, parentPath) ==
    /\ Len(parentPath) <= Len(path)
    /\ SubSeq(path, 1, Len(parentPath)) = parentPath

\* path lies inside directory dir in the file system
IsDescendant(path, dir) ==
    /\ Len(dir) < Len(path)
    /\ HasPrefix(path, dir \o <<"/">>)

----------------------------------------------------------------------------
(* Time. One tick of the model's clock is TickMs milliseconds.             *)

TickMs == 250
DeleteTimeoutMs == 250

\* ages are counted up to the first value at which the timeout has elapsed
AgeCap == (DeleteTimeoutMs + TickMs - 1) \div TickMs

\* time.Since(pd.timestamp) < m.deleteTimeout
Young(age) == age * TickMs < DeleteTimeoutMs

Older(age) == IF age < AgeCap THEN age + 1 ELSE age

----------------------------------------------------------------------------
(* FileInfo and FileMap                                                    *)

FileTypeInitial == "initial"
FileTypeNew == "new"

\* FileInfo{FileInfo: fi, FileType: t}; kind is what the embedded fs.FileInfo
\* says: "file", "dir", or "nil" when the embedded interface is nil.
NewFileInfo(t, kind) ==
    [fileType |-> t, wasDeleted |-> FALSE, writes |-> 0, preSwapWrites |-> 0,
     pendingSwap |-> FALSE, kind |-> kind]

IsInitial(info) == info.fileType = FileTypeInitial

\* a lookup that never finds the path
HasNever(fm, path) == FALSE

\* _, ok := f.files[path]
Has(fm, path) == path \in DOMAIN fm

Remove(fm, path) == [q \in (DOMAIN fm) \ {path} |-> fm[q]]

Put(fm, path, info) == [q \in (DOMAIN fm) \cup {path} |-> IF q = path THEN info ELSE fm[q]]

\* A ledger value: the three fields of FileMap that the methods update.
Ledger(fm, fc, fd) == [files |-> fm, filesCreated |-> fc, filesDeleted |-> fd]

Result(l, err) == [l |-> l, err |-> err]

\* FileMap.AddFile
AddFile(l, path, info) ==
    IF Has(l.files, path)
    THEN IF ~l.files[path].wasDeleted
         THEN Result(l, "ErrFileTracked")
         ELSE Result(Ledger(Put(l.files, path, info),
                            IF ~IsInitial(l.files[path])
                            THEN l.filesCreated + 1 ELSE l.filesCreated,
                            l.filesDeleted), "nil")
    ELSE Result(Ledger(Put(l.files, path, info),
                       IF info.fileType # FileTypeInitial
                       THEN l.filesCreated + 1 ELSE l.filesCreated,
                       l.filesDeleted), "nil")

\* FileMap.AddNewPath; stat is the outcome of os.Stat: "err", "file" or "dir"
AddNewPath(l, path, stat) ==
    IF Has(l.files, path) THEN Result(l, "ErrFileTracked")
    ELSE IF stat = "err" THEN Result(l, "ErrStat")
    ELSE Result(Ledger(Put(l.files, path, NewFileInfo(FileTypeNew, stat)),
                       l.filesCreated + 1, l.filesDeleted), "nil")

\* an AddWrite that counts the write whatever pendingSwap says
AddWriteAlways(l, path) ==
    IF ~Has(l.files, path) THEN Result(l, "ErrUnknownFile")
    ELSE Result([l EXCEPT !.files[path].writes = @ + 1], "nil")

\* FileMap.AddWrite
AddWrite(l, path) ==
    IF ~Has(l.files, path) THEN Result(l, "ErrUnknownFile")
    ELSE IF l.files[path].pendingSwap THEN Result(l, "nil")
    ELSE Result([l EXCEPT !.files[path].writes = @ + 1], "nil")

\* an AddSwapWrite that adds the swap to the writes counted so far
AddSwapWriteAdds(l, path) ==
    IF ~Has(l.files, path) THEN Result(l, "ErrUnknownFile")
    ELSE Result([l EXCEPT !.files[path].writes = @ + 1,
                          !.files[path].pendingSwap = FALSE], "nil")

\* an AddSwapWrite that leaves pendingSwap as it is
AddSwapWriteKeepsPending(l, path) ==
    IF ~Has(l.files, path) THEN Result(l, "ErrUnknownFile")
    ELSE Result([l EXCEPT !.files[path].preSwapWrites = @ + l.files[path].writes,
                          !.files[path].writes = 1], "nil")

\* FileMap.AddSwapWrite
AddSwapWrite(l, path) ==
    IF ~Has(l.files, path) THEN Result(l, "ErrUnknownFile")
    ELSE Result([l EXCEPT !.files[path].preSwapWrites = @ + l.files[path].writes,
                          !.files[path].writes = 1,
                          !.files[path].pendingSwap = FALSE], "nil")

\* FileMap.MarkPendingSwap
MarkPendingSwap(l, path) ==
    IF Has(l.files, path) THEN [l EXCEPT !.files[path].pendingSwap = TRUE] ELSE l

\* a delete that tombstones every entry, New ones included
DeleteEntryTombstone(l, path) ==
    [l EXCEPT !.files[path].wasDeleted = TRUE, !.filesDeleted = @ + 1]

\* the entry and counter update of FileMap.deleteIndividual (lines 274-291)
DeleteEntry(l, path) ==
    IF IsInitial(l.files[path])
    THEN [l EXCEPT !.files[path].wasDeleted = TRUE, !.filesDeleted = @ + 1]
    ELSE [l EXCEPT !.files = Remove(l.files, path), !.filesCreated = @ - 1]

\* FileMap.deleteIndividual(path, false)
DeleteIndividual(l, path) ==
    IF ~Has(l.files, path) THEN Result(l, "ErrUnknownFile")
    ELSE Result(DeleteEntry(l, path), "nil")

\* the paths FileMap.deleteChildren collects in toDelete
ToDelete(fm, parentPath) == {q \in DOMAIN fm : HasPrefix(q, parentPath)}

RECURSIVE DeleteEach(_, _)
\* the loop of FileMap.deleteChildren over toDelete (map order is arbitrary;
\* the paths are distinct and tracked, so every order gives the same ledger)
DeleteEach(l, paths) ==
    IF paths = {} THEN Result(l, "nil")
    ELSE LET q == CHOOSE x \in paths : TRUE
             r == DeleteIndividual(l, q)
         IN  IF r.err # "nil" THEN r ELSE DeleteEach(r.l, paths \ {q})

\* a Delete that does not cascade: deleteIndividual(path, false)
DeleteNoChildren(l, parentPath) == Result(l, "nil")

\* FileMap.deleteChildren
DeleteChildren(l, parentPath) == DeleteEach(l, ToDelete(l.files, parentPath))

\* FileMap.Delete = deleteIndividual(path, true). file.IsDir() on an entry whose
\* embedded FileInfo is nil panics, after the entry and the counter were updated.
Delete(l, path) ==
    IF ~Has(l.files, path) THEN Result(l, "ErrUnknownFile")
    ELSE LET file == l.files[path]
             l1 == DeleteEntry(l, path)
         IN  IF file.kind = "nil" THEN Result(l1, "panic")
             ELSE IF file.kind = "dir" THEN DeleteChildren(l1, path)
             ELSE Result(l1, "nil")

\* FileMap.NewFiles
NewFiles(fm) == {q \in DOMAIN fm : fm[q].fileType = FileTypeNew}

\* FileMap.DeletedFiles
DeletedFiles(fm) == {q \in DOMAIN fm : fm[q].wasDeleted}

\* FileMap.WrittenFiles
WrittenFiles(fm) == [q \in {x \in DOMAIN fm : fm[x].writes > 0} |-> fm[q].writes]

CurLedger == Ledger(files, filesCreated, filesDeleted)

SetLedger(l) ==
    /\ files' = l.files
    /\ filesCreated' = l.filesCreated
    /\ filesDeleted' = l.filesDeleted

----------------------------------------------------------------------------
(* LedgerSpec: the FileMap driven directly, each method run to completion. *)

\* Event{Name, Op}; seq numbers the notifications in the order the watcher reported them
NewEvent(name, op, seq) == [name |-> name, op |-> op, seq |-> seq]

NoEvent == NewEvent(<<>>, {}, 0)

\* pendingDelete{timestamp, event, initialFile}; age is the time since timestamp
NewPendingDelete(event, initialFile) == [age |-> 0, event |-> event, initialFile |-> initialFile]

NoPd == NewPendingDelete(NoEvent, FALSE)

\* history: the counters as they were when the snapshot was taken, plus every
\* change made since on behalf of other paths
Snap(fc, fd) == [valid |-> TRUE, fc |-> fc, fd |-> fd]

NoSnap == [valid |-> FALSE, fc |-> 0, fd |-> 0]

\* history: nothing has happened yet
NoHist == [since |-> [p \in Paths |-> AgeCap],
           log |-> [p \in Paths |-> <<>>],
           atRemove |-> [p \in Paths |-> NoSnap],
           atCreate |-> [p \in Paths |-> NoSnap],
           fresh |-> [p \in Paths |-> FALSE],
           dup |-> FALSE,
           young |-> FALSE,
           tomb |-> FALSE,
           kept |-> {}]

MonitorIdle ==
    /\ pendingDeletes = <<>>
    /\ mainPc = "select"
    /\ cur = NoEvent
    /\ curPd = NoPd
    /\ sweepPc = "wait"
    /\ todo = {}
    /\ sweepEv = NoEvent
    /\ reported = 0
    /\ delivered = [p \in Paths |-> NoEvent]
    /\ fault = FALSE
    /\ hist = NoHist

\* NewFileMap
LedgerInit ==
    /\ files = <<>>
    /\ filesCreated = 0
    /\ filesDeleted = 0
    /\ lastOp = [op |-> "none", path |-> <<>>, err |-> "nil"]
    /\ MonitorIdle
    /\ OthersIdle

Called(op, path, r) ==
    /\ SetLedger(r.l)
    /\ lastOp' = [op |-> op, path |-> path, err |-> r.err]
    /\ UNCHANGED <<monitorVars, hist, otherVars>>

RECURSIVE TotalWrites(_, _)
\* writes and preSwapWrites summed over the entries of paths
TotalWrites(fm, paths) ==
    IF paths = {} THEN 0
    ELSE LET q == CHOOSE x \in paths : TRUE
         IN  fm[q].writes + fm[q].preSwapWrites + TotalWrites(fm, paths \ {q})

\* the counters stay within the model's bounds
CountersInBounds ==
    /\ filesCreated < MaxCount
    /\ filesDeleted < MaxCount

CallAddFile ==
    \E path \in Paths, t \in {FileTypeInitial, FileTypeNew}, kind \in {"file", "dir"} :
        /\ CountersInBounds
        /\ Called("AddFile", path, AddFile(CurLedger, path, NewFileInfo(t, kind)))

CallAddNewPath ==
    \E path \in Paths, stat \in {"err", "file", "dir"} :
        /\ CountersInBounds
        /\ Called("AddNewPath", path, AddNewPath(CurLedger, path, stat))

CallAddWrite ==
    \E path \in Paths :
        /\ TotalWrites(files, DOMAIN files) < MaxWrites
        /\ Called("AddWrite", path, AddWrite(CurLedger, path))

CallAddSwapWrite ==
    \E path \in Paths :
        /\ TotalWrites(files, DOMAIN files) < MaxWrites
        /\ Called("AddSwapWrite", path, AddSwapWrite(CurLedger, path))

CallMarkPendingSwap ==
    \E path \in Paths :
        Called("MarkPendingSwap", path, Result(MarkPendingSwap(CurLedger, path), "nil"))

CallDelete ==
    \E path \in Paths :
        /\ CountersInBounds
        /\ Called("Delete", path, Delete(CurLedger, path))

LedgerNext ==
    \/ CallAddFile
    \/ CallAddNewPath
    \/ CallAddWrite
    \/ CallAddSwapWrite
    \/ CallMarkPendingSwap
    \/ CallDelete

LedgerSpec == LedgerInit /\ [][LedgerNext]_vars

----------------------------------------------------------------------------
(* Event.Type                                                              *)

EventTypeUnknown == "unknown"
EventTypeChmod == "chmod"
EventTypeCreate == "create"
EventTypeRemove == "remove"
EventTypeRename == "rename"
EventTypeWrite == "write"

\* fsnotify.Op is a set of flags
OpFlags == {"Create", "Write", "Remove", "Rename", "Chmod"}

\* an Event.Type that looks at Create first
TypeCreateFirst(op) ==
    IF "Create" \in op THEN EventTypeCreate
    ELSE IF "Chmod" \in op THEN EventTypeChmod
    ELSE IF "Remove" \in op THEN EventTypeRemove
    ELSE IF "Rename" \in op THEN EventTypeRename
    ELSE IF "Write" \in op THEN EventTypeWrite
    ELSE EventTypeUnknown

\* Event.Type
Type(op) ==
    IF "Chmod" \in op THEN EventTypeChmod
    ELSE IF "Create" \in op THEN EventTypeCreate
    ELSE IF "Remove" \in op THEN EventTypeRemove
    ELSE IF "Rename" \in op THEN EventTypeRename
    ELSE IF "Write" \in op THEN EventTypeWrite
    ELSE EventTypeUnknown

\* the operations the watcher reports in the Monitor model; handleEvent treats
\* Rename like Remove, and Chmod and Unknown like Write
NotifyOps == {{"Create"}, {"Write"}, {"Remove"}}

----------------------------------------------------------------------------
(* Spec: the Monitor.                                                      *)

\* what can be on disk below the root when the monitor is constructed
InitialDisks ==
    {disk \in [Paths -> {"none", "file", "dir"}] :
        \A p \in Paths, q \in Paths :
            (IsDescendant(q, p) /\ disk[q] # "none") => disk[p] = "dir"}

\* Monitor.populateInitialFiles on that disk: every file and every directory
\* found is added with FileTypeInitial
PopulateInitialFiles(disk) ==
    [q \in {x \in Paths : disk[x] # "none"} |-> NewFileInfo(FileTypeInitial, disk[q])]

\* NewMonitor
Init ==
    /\ \E disk \in InitialDisks : files = PopulateInitialFiles(disk)
    /\ filesCreated = 0
    /\ filesDeleted = 0
    /\ lastOp = [op |-> "none", path |-> <<>>, err |-> "nil"]
    /\ MonitorIdle
    /\ OthersIdle

\* pendingDeleteMutex is free: the sweeper holds it for the whole of a pass,
\* the main loop only within one step
MutexFree == sweepPc \in {"off", "wait", "returned"}

Running == ~fault

\* history: a step taken on behalf of name changes the counters; the snapshots
\* of all other paths follow the change
Foreign(snaps, name) ==
    [p \in Paths |->
        IF snaps[p].valid /\ p # name
        THEN [snaps[p] EXCEPT !.fc = @ + (filesCreated' - filesCreated),
                              !.fd = @ + (filesDeleted' - filesDeleted)]
        ELSE snaps[p]]

\* history: the time since the last Remove notification of a path, and whether
\* its entry was added by the Create notification last handled for it
Since(name) == IF name \in DOMAIN hist.since THEN hist.since[name] ELSE AgeCap
Fresh(name) == name \in DOMAIN hist.fresh /\ hist.fresh[name]

\* history: the entry of p was deleted (removed or tombstoned) by this step
Deleted(p) ==
    /\ Has(files, p) /\ ~files[p].wasDeleted
    /\ ~Has(files', p) \/ files'[p].wasDeleted

\* Run, lines 154-168, and handleEvent's third case: a Write, Chmod or Unknown
\* notification is sent on Events as it is
ReadOther(name, op) ==
    /\ Running /\ mainPc = "select" /\ reported < MaxNotifications
    /\ Type(op) \in {EventTypeWrite, EventTypeChmod, EventTypeUnknown}
    /\ reported' = reported + 1
    /\ cur' = NewEvent(name, op, reported + 1)
    /\ mainPc' = "send"
    /\ UNCHANGED <<ledgerVars, lastOp, pendingDeletes, curPd, sweepPc, todo, sweepEv,
                   delivered, fault, hist>>

RecvOther == \E name \in Paths, op \in NotifyOps : ReadOther(name, op) /\ UNCHANGED otherVars

\* handleRemoveOrRename, lines 101-112: Get and the pendingDelete value
ReadRemove(name, op) ==
    /\ Running /\ mainPc = "select" /\ reported < MaxNotifications
    /\ Type(op) \in {EventTypeRemove, EventTypeRename}
    /\ reported' = reported + 1
    /\ IF Has(files, name)
       THEN /\ cur' = NewEvent(name, op, reported + 1)
            /\ curPd' = NewPendingDelete(NewEvent(name, op, reported + 1),
                                         IsInitial(files[name]))
            /\ mainPc' = "rr_mark"
            /\ hist' = [hist EXCEPT !.since[name] = 0,
                                    !.log[name] = Append(@, "remove"),
                                    !.atRemove[name] =
                                        IF Has(pendingDeletes, name)
                                            \/ files[name].wasDeleted
                                        THEN NoSnap
                                        ELSE Snap(filesCreated, filesDeleted),
                                    !.fresh[name] = FALSE]
       ELSE /\ hist' = [hist EXCEPT !.log[name] = Append(@, "remove"),
                                    !.fresh[name] = FALSE]
            /\ UNCHANGED <<cur, curPd, mainPc>>
    /\ UNCHANGED <<ledgerVars, lastOp, pendingDeletes, sweepPc, todo, sweepEv,
                   delivered, fault>>

RecvRemove == \E name \in Paths, op \in NotifyOps : ReadRemove(name, op) /\ UNCHANGED otherVars

\* handleRemoveOrRename, line 116
RrMark ==
    /\ Running /\ mainPc = "rr_mark"
    /\ SetLedger(MarkPendingSwap(CurLedger, cur.name))
    /\ mainPc' = "rr_lock"
    /\ UNCHANGED <<otherVars, lastOp, pendingDeletes, cur, curPd, sweepPc, todo, sweepEv, reported,
                   delivered, fault, hist>>

\* handleRemoveOrRename, lines 118-122
RrStore ==
    /\ Running /\ mainPc = "rr_lock" /\ MutexFree
    /\ pendingDeletes' = Put(pendingDeletes, cur.name, curPd)
    /\ mainPc' = "select"
    /\ cur' = NoEvent
    /\ curPd' = NoPd
    /\ UNCHANGED <<otherVars, ledgerVars, lastOp, sweepPc, todo, sweepEv, reported, delivered, fault,
                   hist>>

\* a cancellation that is not per path
CancelAll(pds, name) == <<>>

\* handleCreate, line 49: a pending delete of the path means an editor swap
SwapDetected(pds, name) == Has(pds, name)

\* handleCreate, lines 50-51: the pending delete of the path is cancelled
CancelPending(pds, name) == Remove(pds, name)

\* Run, lines 154-168, and handleEvent's first case: a Create notification is
\* read and handleCreate is entered
ReadCreate(name, op) ==
    /\ Running /\ mainPc = "select" /\ reported < MaxNotifications
    /\ Type(op) = EventTypeCreate
    /\ reported' = reported + 1
    /\ cur' = NewEvent(name, op, reported + 1)
    /\ mainPc' = "c_lock"
    /\ hist' = [hist EXCEPT !.young = Young(Since(name)),
                            !.dup = Fresh(name),
                            !.tomb = Has(files, name) /\ files[name].wasDeleted]
    /\ UNCHANGED <<ledgerVars, lastOp, pendingDeletes, curPd, sweepPc, todo, sweepEv,
                   delivered, fault>>

RecvCreate == \E name \in Paths, op \in NotifyOps : ReadCreate(name, op) /\ UNCHANGED otherVars

\* handleCreate, lines 47-63: under the mutex, a pending delete of the path is
\* looked up and cancelled
CreateLock ==
    /\ Running /\ mainPc = "c_lock" /\ MutexFree
    /\ IF SwapDetected(pendingDeletes, cur.name)
       THEN /\ pendingDeletes' = CancelPending(pendingDeletes, cur.name)
            /\ mainPc' = "c_swap"
       ELSE /\ mainPc' = "c_get"
            /\ UNCHANGED pendingDeletes
    /\ hist' = [hist EXCEPT !.log[cur.name] =
                  Append(@, IF SwapDetected(pendingDeletes, cur.name)
                            THEN "swap" ELSE "create"),
                            !.kept = IF SwapDetected(pendingDeletes, cur.name)
                                     THEN DOMAIN pendingDeletes' ELSE @]
    /\ UNCHANGED <<otherVars, ledgerVars, lastOp, cur, curPd, sweepPc, todo, sweepEv, reported,
                   delivered, fault>>

\* handleCreate, lines 53-60: the editor swap is counted as one write
CreateSwap ==
    /\ Running /\ mainPc = "c_swap"
    /\ SetLedger(AddSwapWrite(CurLedger, cur.name).l)
    /\ mainPc' = "select"
    /\ cur' = NoEvent
    /\ UNCHANGED <<otherVars, lastOp, pendingDeletes, curPd, sweepPc, todo, sweepEv, reported,
                   delivered, fault, hist>>

\* where handleCreate goes on after AddFile, by what os.Stat said (line 86)
AfterAdd(stat) == IF stat = "dir" THEN "c_walk" ELSE "c_push"

\* handleCreate, lines 65-68: the path is already tracked
DuplicateCreate(fm, name) == Has(fm, name)

\* handleCreate, lines 65-84: duplicate check, os.Stat, AddFile
CreateAdd ==
    /\ Running /\ mainPc = "c_get"
    /\ IF DuplicateCreate(files, cur.name)
       THEN /\ mainPc' = "select"
            /\ cur' = NoEvent
            /\ UNCHANGED <<ledgerVars, hist>>
       ELSE \E stat \in {"err", "file", "dir"} :
              IF stat = "err"
              THEN /\ mainPc' = "select"
                   /\ cur' = NoEvent
                   /\ UNCHANGED <<ledgerVars, hist>>
              ELSE LET r == AddFile(CurLedger, cur.name, NewFileInfo(FileTypeNew, stat))
                   IN  /\ SetLedger(r.l)
                       /\ mainPc' = IF r.err = "nil" THEN AfterAdd(stat) ELSE "select"
                       /\ cur' = IF r.err = "nil" THEN cur ELSE NoEvent
                       /\ hist' = [hist EXCEPT
                             !.atCreate = [Foreign(@, cur.name)
                                             EXCEPT ![cur.name] =
                                               IF r.err = "nil"
                                               THEN Snap(filesCreated, filesDeleted) ELSE @],
                             !.atRemove = Foreign(@, cur.name),
                             !.fresh[cur.name] = (r.err = "nil"),
                             !.dup = FALSE]
    /\ UNCHANGED <<otherVars, lastOp, pendingDeletes, curPd, sweepPc, todo, sweepEv, reported,
                   delivered, fault>>

RECURSIVE WalkAdd(_, _, _)
\* the callback of WatchDirRecursive(path, false) over the directories the walk
\* visits: each one not in the map is added as New; noStat are those whose
\* os.Stat fails, which are added with a nil FileInfo
WalkAdd(l, visited, noStat) ==
    IF visited = {} THEN l
    ELSE LET q == CHOOSE x \in visited : TRUE
             kind == IF q \in noStat THEN "nil" ELSE "dir"
             l1 == IF Has(l.files, q) THEN l
                   ELSE AddFile(l, q, NewFileInfo(FileTypeNew, kind)).l
         IN  WalkAdd(l1, visited \ {q}, noStat)

\* handleCreate, lines 86-93: after the settle delay the new directory is walked.
\* The walk fails before adding anything, or visits the directory and the
\* directories found below it.
CreateWalk ==
    /\ Running /\ mainPc = "c_walk"
    /\ \/ /\ mainPc' = "select"
          /\ cur' = NoEvent
          /\ UNCHANGED <<ledgerVars, hist>>
       \/ \E found \in SUBSET {q \in Paths : IsDescendant(q, cur.name)} :
          \E noStat \in SUBSET ((found \cup {cur.name}) \ DOMAIN files) :
              /\ SetLedger(WalkAdd(CurLedger, found \cup {cur.name}, noStat))
              /\ mainPc' = "c_push"
              /\ cur' = cur
              /\ hist' = [hist EXCEPT !.atCreate = Foreign(@, <<>>),
                                      !.atRemove = Foreign(@, <<>>)]
    /\ UNCHANGED <<otherVars, lastOp, pendingDeletes, curPd, sweepPc, todo, sweepEv, reported,
                   delivered, fault>>

\* Monitor.pushEvent: the event is sent on Events, the sender blocks until the
\* consumer takes it
PushEvent ==
    /\ Running /\ mainPc = "c_push"
    /\ delivered' = [delivered EXCEPT ![cur.name] = cur]
    /\ mainPc' = "select"
    /\ cur' = NoEvent
    /\ UNCHANGED <<otherVars, ledgerVars, lastOp, pendingDeletes, curPd, sweepPc, todo, sweepEv,
                   reported, fault, hist>>

\* handleEvent, lines 200-204: the consumer takes the event from Events
SendEvent ==
    /\ Running /\ mainPc = "send"
    /\ delivered' = [delivered EXCEPT ![cur.name] = cur]
    /\ mainPc' = "select"
    /\ cur' = NoEvent
    /\ UNCHANGED <<otherVars, ledgerVars, lastOp, pendingDeletes, curPd, sweepPc, todo, sweepEv,
                   reported, fault, hist>>

\* processPendingDeletes, lines 282-285: a tick of the ticker starts a pass
SweepTick ==
    /\ Running /\ sweepPc = "wait"
    /\ pendingDeletes # <<>>
    /\ sweepPc' = "pass"
    /\ todo' = DOMAIN pendingDeletes
    /\ UNCHANGED <<otherVars, ledgerVars, lastOp, pendingDeletes, mainPc, cur, curPd, sweepEv,
                   reported, delivered, fault, hist>>

\* a sweeper that does not wait for the timeout
ExpiredAlways(pd) == TRUE

\* processPendingDeletes, line 286: the pending delete is older than the timeout
Expired(pd) == ~Young(pd.age)

\* processPendingDeletes, lines 285-303: one iteration of the loop over the map
SweepVisit ==
    \E name \in todo :
        /\ Running /\ sweepPc = "pass"
        /\ todo' = todo \ {name}
        /\ IF ~Expired(pendingDeletes[name])
           THEN UNCHANGED <<ledgerVars, pendingDeletes, sweepPc, sweepEv, fault, hist>>
           ELSE /\ pendingDeletes' = Remove(pendingDeletes, name)
                /\ LET r == Delete(CurLedger, name)
                   IN  /\ SetLedger(r.l)
                       /\ fault' = (r.err = "panic")
                       /\ IF r.err = "nil"
                          THEN /\ sweepPc' = "send"
                               /\ sweepEv' = pendingDeletes[name].event
                          ELSE UNCHANGED <<sweepPc, sweepEv>>
                /\ hist' = [hist EXCEPT
                      !.atCreate = Foreign(@, name),
                      !.atRemove = Foreign(@, name),
                      !.fresh = [p \in Paths |-> @[p] /\ ~Deleted(p)]]
        /\ UNCHANGED <<otherVars, lastOp, mainPc, cur, curPd, reported, delivered>>

\* processPendingDeletes, lines 305-309: the consumer takes the confirmed event
SweepSend ==
    /\ Running /\ sweepPc = "send"
    /\ delivered' = [delivered EXCEPT ![sweepEv.name] = sweepEv]
    /\ sweepEv' = NoEvent
    /\ sweepPc' = "pass"
    /\ UNCHANGED <<otherVars, ledgerVars, lastOp, pendingDeletes, mainPc, cur, curPd, todo, reported,
                   fault, hist>>

\* processPendingDeletes, line 312: the pass is over, the mutex is released
SweepEnd ==
    /\ Running /\ sweepPc = "pass" /\ todo = {}
    /\ sweepPc' = "wait"
    /\ UNCHANGED <<otherVars, ledgerVars, lastOp, pendingDeletes, mainPc, cur, curPd, todo, sweepEv,
                   reported, delivered, fault, hist>>

\* TickMs milliseconds pass
Tick ==
    /\ Running
    /\ \/ \E name \in DOMAIN pendingDeletes : pendingDeletes[name].age < AgeCap
       \/ mainPc \in {"rr_mark", "rr_lock"} /\ curPd.age < AgeCap
       \/ \E name \in Paths : hist.since[name] < AgeCap
    /\ pendingDeletes' = [name \in DOMAIN pendingDeletes |->
                            [pendingDeletes[name] EXCEPT !.age = Older(@)]]
    /\ curPd' = IF mainPc \in {"rr_mark", "rr_lock"}
                THEN [curPd EXCEPT !.age = Older(@)] ELSE curPd
    /\ hist' = [hist EXCEPT !.since = [p \in Paths |-> Older(@[p])]]
    /\ UNCHANGED <<otherVars, ledgerVars, lastOp, mainPc, cur, sweepPc, todo, sweepEv, reported,
                   delivered, fault>>

Next ==
    \/ RecvOther
    \/ RecvRemove
    \/ RrMark
    \/ RrStore
    \/ RecvCreate
    \/ CreateLock
    \/ CreateSwap
    \/ CreateAdd
    \/ CreateWalk
    \/ PushEvent
    \/ SendEvent
    \/ SweepTick
    \/ SweepVisit
    \/ SweepSend
    \/ SweepEnd
    \/ Tick

Spec == Init /\ [][Next]_vars

----------------------------------------------------------------------------
(* Properties of the ledger                                                *)

\* the entries counted as created: New and not deleted
LiveNew(fm) == {q \in DOMAIN fm : fm[q].fileType = FileTypeNew /\ ~fm[q].wasDeleted}

\* the entries counted as deleted: Initial and tombstoned
TombstonedInitial(fm) == {q \in DOMAIN fm : IsInitial(fm[q]) /\ fm[q].wasDeleted}

\* C1: after any sequence of FileMap calls, filesCreated is the number of
\* entries that are New and not deleted.
C1_CreatedCountsLiveNew == filesCreated = Cardinality(LiveNew(files))

\* C2: in every reachable state of the monitor, filesDeleted is the number of
\* entries that are Initial and tombstoned.
C2_DeletedCountsTombstones == filesDeleted = Cardinality(TombstonedInitial(files))

\* the step is a call of FileMap.Delete on the tracked directory d
DeleteOfDir(d) ==
    /\ lastOp'.op = "Delete" /\ lastOp'.path = d
    /\ Has(files, d) /\ files[d].kind = "dir"

\* q, tracked before the step, is gone after it: removed if it was New,
\* tombstoned if it was Initial
Gone(q) ==
    IF IsInitial(files[q])
    THEN Has(files', q) /\ files'[q].wasDeleted
    ELSE ~Has(files', q)

\* C7: a Delete of a tracked directory d removes every tracked New descendant
\* of d and tombstones every tracked Initial descendant of d.
C7_DeleteCascades ==
    [][\A d \in Paths :
         DeleteOfDir(d) =>
            \A q \in DOMAIN files : IsDescendant(q, d) => Gone(q)]_vars

\* C7 witness: Delete of the New directory d has returned, and it is this call
\* that tombstoned the Initial file d/f below it (the only delete counted)
C7_Witness ==
    /\ lastOp = [op |-> "Delete", path |-> PathD, err |-> "nil"]
    /\ ~Has(files, PathD)
    /\ Has(files, PathDF) /\ files[PathDF].wasDeleted
    /\ filesDeleted = 1

----------------------------------------------------------------------------
(* Properties of the monitor                                               *)

\* the positions of the main loop inside handleCreate
CreatePcs == {"c_lock", "c_swap", "c_get", "c_walk", "c_push"}

\* the step is the one with which handleCreate returns
CreateReturns == mainPc \in CreatePcs /\ mainPc' = "select"

\* the step is the sweeper confirming the pending delete of name
Confirms(name) ==
    /\ sweepPc = "pass"
    /\ Has(pendingDeletes, name) /\ ~Has(pendingDeletes', name)

\* no tracked path lies below dir
NoDescendants(fm, dir) == \A q \in DOMAIN fm : ~IsDescendant(q, dir)

\* C3: when the Create read less than the delete timeout after the Remove of
\* the same tracked path has been handled, filesCreated and filesDeleted are
\* what they were before the Remove (changes made for other paths apart).
C3_SwapKeepsCounters ==
    [][(CreateReturns /\ hist.young /\ hist.atRemove[cur.name].valid)
         => /\ filesCreated' = hist.atRemove[cur.name].fc
            /\ filesDeleted' = hist.atRemove[cur.name].fd]_vars

\* C4: the sweeper confirming the pending delete of a tracked path (nothing
\* tracked below it) tombstones an Initial path and adds exactly 1 to
\* filesDeleted, or removes a New path and takes exactly 1 from filesCreated.
C4_ConfirmCountsOnce ==
    [][\A name \in Paths :
         (Confirms(name) /\ Has(files, name) /\ ~files[name].wasDeleted
            /\ NoDescendants(files, name))
         => IF IsInitial(files[name])
            THEN /\ Has(files', name) /\ files'[name].wasDeleted
                 /\ filesDeleted' = filesDeleted + 1
                 /\ filesCreated' = filesCreated
            ELSE /\ ~Has(files', name)
                 /\ filesCreated' = filesCreated - 1
                 /\ filesDeleted' = filesDeleted]_vars

\* the main loop takes a step of handleCreate for a Create that repeats the
\* Create of a path added before, with no Remove of the path in between
DuplicateStep ==
    /\ mainPc \in CreatePcs /\ mainPc' # mainPc
    /\ hist.dup /\ hist.fresh[cur.name]

\* C5: a second Create of a path that an earlier Create added, with no Remove
\* in between, changes nothing in the ledger or the pending deletes and
\* delivers no event; the path has one entry and filesCreated is one more
\* than before the first Create.
C5_DuplicateCreateIgnored ==
    [][DuplicateStep
         => /\ UNCHANGED <<files, filesCreated, filesDeleted, pendingDeletes, delivered>>
            /\ mainPc' \in {"c_get", "select"}
            /\ cur.name \in DOMAIN files
            /\ hist.atCreate[cur.name].valid
            /\ filesCreated = hist.atCreate[cur.name].fc + 1]_vars

\* C5 witness: the second Create of d2 has been read and handled up to the
\* duplicate check, while d2 is tracked as New since the first one
C5_Witness ==
    /\ mainPc = "c_get" /\ cur.name = PathD2
    /\ hist.dup /\ hist.fresh[PathD2]
    /\ Has(files, PathD2) /\ files[PathD2].fileType = FileTypeNew
    /\ filesCreated = 1

\* the monitor is at rest: nothing pending, both goroutines waiting
AtRest == pendingDeletes = <<>> /\ mainPc = "select" /\ sweepPc = "wait"

\* p and q are Initial files; p went through an editor swap, q was removed
\* and never re-created, no other path was touched
SwapAndRealDelete(p, q) ==
    /\ p # q
    /\ Has(files, p) /\ IsInitial(files[p]) /\ files[p].kind = "file"
    /\ Has(files, q) /\ IsInitial(files[q]) /\ files[q].kind = "file"
    /\ hist.log[p] = <<"remove", "swap">>
    /\ hist.log[q] = <<"remove">>
    /\ \A r \in Paths \ {p, q} : hist.log[r] = <<>>

\* C6: once the monitor is at rest after an editor swap on the Initial file p
\* and a real delete of the Initial file q, NumFilesDeleted is 1 and
\* DeletedFiles is {q}.
C6_PerPathResolution ==
    \A p \in Paths, q \in Paths :
        (AtRest /\ SwapAndRealDelete(p, q))
            => filesDeleted = 1 /\ DeletedFiles(files) = {q}

\* C6 witness: at rest after the swap on d2 and the real delete of d/f, whose
\* pending deletes were outstanding together
C6_Witness ==
    /\ AtRest /\ SwapAndRealDelete(PathD2, PathDF)
    /\ hist.kept = {PathDF}

\* C8: when the delete of a path that a Create added as New is confirmed
\* (nothing tracked below it), filesCreated and filesDeleted are what they were
\* before the Create (changes made for other paths apart), and the path is in
\* neither NewFiles nor DeletedFiles.
C8_CreateThenDeleteNetsZero ==
    [][\A name \in Paths :
         (Confirms(name) /\ Has(files, name) /\ ~IsInitial(files[name])
            /\ hist.atCreate[name].valid /\ NoDescendants(files, name))
         => /\ filesCreated' = hist.atCreate[name].fc
            /\ filesDeleted' = hist.atCreate[name].fd
            /\ name \notin NewFiles(files')
            /\ name \notin DeletedFiles(files')]_vars

\* C9: when handleCreate returns from a Create of an Initial path that was
\* tombstoned when the Create was read and had no pending delete, the entry
\* of the path is live again.
C9_Resurrection ==
    [][(CreateReturns /\ mainPc = "c_get" /\ hist.tomb)
         => /\ cur.name \in DOMAIN files'
            /\ ~files'[cur.name].wasDeleted]_vars

\* the step delivers an event of path p to the consumer
Delivers(p) == delivered'[p] # delivered[p]

\* the delivered event was reported after the one delivered before it
InReportOrder(p) == delivered'[p].seq > delivered[p].seq

IsDelete(event) == Type(event.op) \in {EventTypeRemove, EventTypeRename}

\* the step is the sweeper starting to send the event of a confirmed delete
StartsSend == sweepPc = "pass" /\ sweepPc' = "send"

SwapReturns == mainPc = "c_swap" /\ mainPc' = "select"

\* C11: when handleCreate returns after cancelling the pending delete of the
\* path (editor swap), one Write event for the path has been pushed on Events.
C11_SwapPushesWrite ==
    [][SwapReturns
         => /\ Delivers(cur.name)
            /\ Type(delivered'[cur.name].op) = EventTypeWrite]_vars

\* C18: as long as a path keeps an entry in the ledger, the fileType of the
\* entry stays what it was.
C18_FileTypeFixed ==
    [][\A p \in (DOMAIN files) \cap (DOMAIN files') :
         files'[p].fileType = files[p].fileType]_vars

\* C19: no entry of the ledger is New and tombstoned.
C19_NoNewTombstone ==
    \A p \in DOMAIN files :
        files[p].wasDeleted => IsInitial(files[p])

\* C19 witness: Delete has just removed the New path d2 while the Initial
\* path d/f, deleted before, is kept as a tombstone
C19_Witness ==
    /\ lastOp = [op |-> "Delete", path |-> PathD2, err |-> "nil"]
    /\ ~Has(files, PathD2)
    /\ filesCreated = 0 /\ filesDeleted = 1
    /\ Has(files, PathDF) /\ IsInitial(files[PathDF]) /\ files[PathDF].wasDeleted

\* the delete of p is pending: stored, about to be stored, or just cancelled
\* by a Create whose swap write is not recorded yet
Unresolved(p) ==
    \/ Has(pendingDeletes, p)
    \/ mainPc = "rr_lock" /\ cur.name = p
    \/ mainPc = "c_swap" /\ cur.name = p

\* C20: an entry has pendingSwap set only while a delete of its path is
\* pending.
C20_PendingSwapOnlyWhilePending ==
    \A p \in DOMAIN files : files[p].pendingSwap => Unresolved(p)

----------------------------------------------------------------------------
(* Dependencies (pkg/deps) and the python listener's requirements file.    *)
(* Strings are tuples of characters; a file's content is the sequence of   *)
(* its lines, as bufio.Scanner yields them.                                *)

MaxLines == 2

LineA1 == <<"a", "=", "=", "1">>
LineA2 == <<"a", "=", "=", "2">>
LineAge1 == <<"a", ">", "=", "1">>
LineAatU == <<"a", " ", "@", " ", "u">>
LineAatV == <<"a", " ", "@", " ", "v">>
LineAparU == <<"a", " ", "(", "u", ")">>
LineGit == <<"g", "i", "t", "+", "u", "@", "1">>
LineComment == <<"#", " ", "c">>
ManifestLines == {LineA1, LineA2, LineAge1, LineAatU, LineAatV, LineAparU, LineGit, LineComment}

Contents == UNION {[1..n -> ManifestLines] : n \in 0..MaxLines}

Least(S) == CHOOSE x \in S : \A y \in S : x <= y
Greatest(S) == CHOOSE x \in S : \A y \in S : y <= x

\* positions at which sub occurs in s
Occurrences(s, sub) ==
    {i \in 1..(Len(s) - Len(sub) + 1) : SubSeq(s, i, i + Len(sub) - 1) = sub}

\* strings.Index, 1-based; 0 where Go returns -1
Index(s, sub) == IF Occurrences(s, sub) = {} THEN 0 ELSE Least(Occurrences(s, sub))

\* strings.LastIndex, 1-based; 0 where Go returns -1
LastIndex(s, sub) == IF Occurrences(s, sub) = {} THEN 0 ELSE Greatest(Occurrences(s, sub))

RECURSIVE TrimLeft(_)
TrimLeft(s) == IF s # <<>> /\ Head(s) = " " THEN TrimLeft(Tail(s)) ELSE s

RECURSIVE TrimRight(_)
TrimRight(s) ==
    IF s # <<>> /\ s[Len(s)] = " " THEN TrimRight(SubSeq(s, 1, Len(s) - 1)) ELSE s

\* strings.TrimSpace
TrimSpace(s) == TrimRight(TrimLeft(s))

\* s[:i] and s[i:] of Go for the 1-based position i
Before(s, i) == SubSeq(s, 1, i - 1)
From(s, i) == SubSeq(s, i, Len(s))

Dependency(name, url, version) == [name |-> name, url |-> url, version |-> version]

\* a nil *deps.Dependency
NilDependency == [nil |-> TRUE]

\* Dependency.Package
Package(d) ==
    IF d.name = <<>> THEN d.url
    ELSE IF d.url = <<>> THEN d.name
    ELSE d.name \o <<" ", "(">> \o d.url \o <<")">>

\* parseURLDependency
parseURLDependency(line) ==
    LET idx == LastIndex(line, <<"@">>)
        afterAt == From(line, idx + 1)
    IN  IF /\ HasPrefix(line, <<"g", "i", "t", "+">>)
           /\ idx # 0
           /\ Index(afterAt, <<"/">>) = 0
           /\ Index(afterAt, <<":">>) = 0
        THEN Dependency(<<>>, line, afterAt)
        ELSE Dependency(<<>>, line, <<>>)

\* parseStandardDependency
parseStandardDependency(line) ==
    LET ops == {i \in 1..Len(line) : line[i] \in {"=", "!", "<", ">", "~"}}
        versionIdx == IF ops = {} THEN 0 ELSE Least(ops)
        name == TrimSpace(IF versionIdx = 0 THEN line ELSE Before(line, versionIdx))
        spec == TrimSpace(IF versionIdx = 0 THEN <<>> ELSE From(line, versionIdx))
        version == IF HasPrefix(spec, <<"=", "=">>) THEN From(spec, 3) ELSE spec
    IN  IF name = <<>> THEN NilDependency ELSE Dependency(name, <<>>, version)

\* parsePEP508
parsePEP508(text) ==
    LET hash == Index(text, <<"#">>)
        stripped == TrimSpace(IF hash # 0 THEN Before(text, hash) ELSE text)
        semi == Index(stripped, <<";">>)
        line == IF semi # 0 THEN TrimSpace(Before(stripped, semi)) ELSE stripped
        at == Index(line, <<" ", "@", " ">>)
    IN  IF stripped = <<>> THEN NilDependency
        ELSE IF \/ HasPrefix(line, <<"g", "i", "t", "+">>)
                \/ HasPrefix(line, <<"h", "t", "t", "p", "s", ":", "/", "/">>)
                \/ HasPrefix(line, <<"h", "t", "t", "p", ":", "/", "/">>)
             THEN parseURLDependency(line)
        ELSE IF at # 0
             THEN Dependency(TrimSpace(Before(line, at)), TrimSpace(From(line, at + 3)), <<>>)
        ELSE parseStandardDependency(line)

RECURSIVE ParseRequirementsTxt(_)
\* ParseRequirementsTxt: the dependencies of the lines, in order; empty lines,
\* comments, directives and lines parsePEP508 rejects are skipped
ParseRequirementsTxt(content) ==
    IF content = <<>> THEN <<>>
    ELSE LET line == TrimSpace(Head(content))
             rest == ParseRequirementsTxt(Tail(content))
             skip == \/ line = <<>>
                     \/ HasPrefix(line, <<"#">>)
                     \/ HasPrefix(line, <<"-", "r">>)
                     \/ HasPrefix(line, <<"-", "c">>)
                     \/ HasPrefix(line, <<"-", "e">>)
                     \/ HasPrefix(line, <<"-", "-">>)
         IN  IF skip \/ parsePEP508(line) = NilDependency THEN rest
             ELSE <<parsePEP508(line)>> \o rest

RECURSIVE UniqueFirst(_, _)
\* as Unique, but the first dependency of a package is kept
UniqueFirst(list, m) ==
    IF list = <<>> THEN m
    ELSE LET dep == Head(list)
             pkg == Package(dep)
         IN  UniqueFirst(Tail(list),
                 [k \in DOMAIN m \cup {pkg} |-> IF k \in DOMAIN m THEN m[k] ELSE dep])

RECURSIVE Unique(_, _)
\* Diff's two loops "unique[dep.Package()] = dep": a later dependency of a
\* package replaces an earlier one
Unique(list, m) ==
    IF list = <<>> THEN m
    ELSE LET dep == Head(list)
             pkg == Package(dep)
         IN  Unique(Tail(list), [k \in DOMAIN m \cup {pkg} |-> IF k = pkg THEN dep ELSE m[k]])

\* as Diff, but every dependency of initial whose package latest lacks is
\* reported removed
DiffRemovedAll(d, name, initial) ==
    LET uniqueLatest == Unique(d, <<>>)
        uniqueInitial == Unique(initial, <<>>)
    IN  [path |-> name,
         newDependencies |->
             {uniqueLatest[pkg] : pkg \in DOMAIN uniqueLatest \ DOMAIN uniqueInitial},
         deletedDependencies |->
             {initial[i] : i \in {j \in 1..Len(initial) :
                                     Package(initial[j]) \notin DOMAIN uniqueLatest}},
         updatedDependencies |->
             {[initial |-> uniqueInitial[pkg], latest |-> uniqueLatest[pkg]] :
                 pkg \in {k \in DOMAIN uniqueLatest \cap DOMAIN uniqueInitial :
                             uniqueInitial[k].version # uniqueLatest[k].version}}]

\* Dependencies.Diff. The three lists are built in the iteration order of a Go
\* map, which is unspecified, and hold one element per key: they are sets.
Diff(d, name, initial) ==
    LET uniqueLatest == Unique(d, <<>>)
        uniqueInitial == Unique(initial, <<>>)
    IN  [path |-> name,
         newDependencies |->
             {uniqueLatest[pkg] : pkg \in DOMAIN uniqueLatest \ DOMAIN uniqueInitial},
         deletedDependencies |->
             {uniqueInitial[pkg] : pkg \in DOMAIN uniqueInitial \ DOMAIN uniqueLatest},
         updatedDependencies |->
             {[initial |-> uniqueInitial[pkg], latest |-> uniqueLatest[pkg]] :
                 pkg \in {k \in DOMAIN uniqueLatest \cap DOMAIN uniqueInitial :
                             uniqueInitial[k].version # uniqueLatest[k].version}}]

ManifestPath == <<"r">>

\* RequirementsFile.Diff. LatestContent is set together with InitialContent
\* and only ever replaced by an event's content, so it is not nil.
RequirementsFileDiff(r) ==
    Diff(ParseRequirementsTxt(r.latestContent), ManifestPath,
         ParseRequirementsTxt(r.initialContent))

DiffInit ==
    /\ files = <<>>
    /\ filesCreated = 0
    /\ filesDeleted = 0
    /\ lastOp = [op |-> "none", path |-> <<>>, err |-> "nil"]
    /\ MonitorIdle
    /\ OthersIdle

DiffFrame == UNCHANGED <<ledgerVars, lastOp, monitorVars, hist, race, git, life, fs, mon>>

\* handleRequirementsTxt, EventInit
LogInit ==
    /\ ~manifest.tracked
    /\ \E content \in Contents :
        manifest' = [tracked |-> TRUE, initialContent |-> content,
                     latestContent |-> content, diff |-> NoDiff]
    /\ DiffFrame

\* handleRequirementsTxt, EventWrite
LogWrite ==
    /\ manifest.tracked
    /\ \E content \in Contents :
        manifest' = [manifest EXCEPT !.latestContent = content, !.diff = NoDiff]
    /\ DiffFrame

\* Listener.Diff for the one requirements file
CallDiff ==
    /\ manifest.tracked
    /\ ~manifest.diff.returned
    /\ LET diff == RequirementsFileDiff(manifest)
       IN  manifest' = [manifest EXCEPT !.diff =
                [returned |-> TRUE,
                 newDependencies |-> diff.newDependencies,
                 deletedDependencies |-> diff.deletedDependencies,
                 updatedDependencies |-> diff.updatedDependencies]]
    /\ DiffFrame

DiffNext == LogInit \/ LogWrite \/ CallDiff

DiffSpec == DiffInit /\ [][DiffNext]_vars

\* the dependencies parsed from the two contents of the requirements file
InitialDeps == ParseRequirementsTxt(manifest.initialContent)
LatestDeps == ParseRequirementsTxt(manifest.latestContent)

Elems(list) == {list[i] : i \in 1..Len(list)}

\* the package identities occurring in a list
Ids(list) == {Package(dep) : dep \in Elems(list)}

\* C15: for any two dependency snapshots A and B, the added list of
\* Diff(A, B) equals, as a set of dependencies, the removed list of
\* Diff(B, A), and the removed list of Diff(A, B) equals the added list of
\* Diff(B, A). The diff returned for the file is compared with the diff of the
\* same two snapshots taken the other way round.
C15_DiffSymmetry ==
    manifest.diff.returned =>
        LET back == Diff(InitialDeps, ManifestPath, LatestDeps)
        IN  /\ manifest.diff.newDependencies = back.deletedDependencies
            /\ manifest.diff.deletedDependencies = back.newDependencies

\* a diff with an added and a removed dependency has been returned, the
\* removed package being listed twice in the initial snapshot
C15_Witness ==
    /\ manifest.diff.returned
    /\ manifest.initialContent = <<LineA1, LineA2>>
    /\ manifest.latestContent = <<LineAatU>>
    /\ manifest.diff.newDependencies = {Dependency(<<"a">>, <<"u">>, <<>>)}
    /\ manifest.diff.deletedDependencies = {Dependency(<<"a">>, <<>>, <<"2">>)}

\* the package identities a diff reports as added, removed, updated
AddedIds(diff) == {Package(dep) : dep \in diff.newDependencies}
RemovedIds(diff) == {Package(dep) : dep \in diff.deletedDependencies}
UpdatedIds(diff) == {Package(u.latest) : u \in diff.updatedDependencies}

\* pkg occurs in both lists, with equal (same = TRUE) or with different
\* (same = FALSE) version strings
InBoth(pkg, same) ==
    \E i \in Elems(InitialDeps), l \in Elems(LatestDeps) :
        /\ Package(i) = pkg
        /\ Package(l) = pkg
        /\ (i.version = l.version) = same

\* the scenario: the one change of the manifest is a bump of the one package
Bump == manifest.initialContent = <<LineA1>> /\ manifest.latestContent = <<LineA2>>

OneUpdated ==
    /\ Cardinality(manifest.diff.updatedDependencies) = 1
    /\ manifest.diff.newDependencies = {}
    /\ manifest.diff.deletedDependencies = {}

\* C16 as stated: for any initial and latest dependency lists, Diff reports a
\* package identity as added iff it occurs only in latest, as removed iff it
\* occurs only in initial, as updated iff it occurs in both with different
\* version strings, and not at all if it occurs in both with the same
\* version; a bump of the one package yields one updated dependency only.
C16_DiffByOccurrence ==
    manifest.diff.returned =>
        /\ AddedIds(manifest.diff) = Ids(LatestDeps) \ Ids(InitialDeps)
        /\ RemovedIds(manifest.diff) = Ids(InitialDeps) \ Ids(LatestDeps)
        /\ UpdatedIds(manifest.diff) = {pkg \in Ids(InitialDeps) : InBoth(pkg, FALSE)}
        /\ \A pkg \in Ids(InitialDeps) :
              InBoth(pkg, TRUE) =>
                  pkg \notin AddedIds(manifest.diff) \cup RemovedIds(manifest.diff)
                                \cup UpdatedIds(manifest.diff)
        /\ Bump => OneUpdated

\* the last dependency of the list with that package identity
Last(list, pkg) == list[Greatest({i \in 1..Len(list) : Package(list[i]) = pkg})]

\* C16 amended: the last dependency a list holds for a package identity stands
\* for that identity. Diff reports the identity as added iff it occurs only in
\* latest, as removed iff it occurs only in initial, as updated iff it occurs
\* in both and the versions of the two that stand for it differ, and not at
\* all if they are equal; a bump of the one package yields one updated
\* dependency only.
C16_DiffByLastOccurrence ==
    manifest.diff.returned =>
        /\ manifest.diff.newDependencies =
              {Last(LatestDeps, pkg) : pkg \in Ids(LatestDeps) \ Ids(InitialDeps)}
        /\ manifest.diff.deletedDependencies =
              {Last(InitialDeps, pkg) : pkg \in Ids(InitialDeps) \ Ids(LatestDeps)}
        /\ manifest.diff.updatedDependencies =
              {[initial |-> Last(InitialDeps, pkg), latest |-> Last(LatestDeps, pkg)] :
                  pkg \in {k \in Ids(InitialDeps) \cap Ids(LatestDeps) :
                              Last(InitialDeps, k).version # Last(LatestDeps, k).version}}
        /\ Bump => OneUpdated

\* the diff of the bump has been returned
C16_Witness ==
    /\ manifest.diff.returned
    /\ Bump
    /\ manifest.diff.updatedDependencies =
          {[initial |-> Dependency(<<"a">>, <<>>, <<"1">>),
            latest |-> Dependency(<<"a">>, <<>>, <<"2">>)]}

\* the list holds exactly one dependency of that name
OnlyOne(list, name) == Cardinality({i \in 1..Len(list) : list[i].name = name}) = 1

\* C17: if a dependency's url differs between the initial and the latest
\* snapshot, Diff reports the old identity in the removed list and the new
\* identity in the added list and reports nothing for it in the updated list,
\* whether or not the version also changed. The dependency is the one of its
\* name in either snapshot.
C17_UrlChangeIsRemoveAndAdd ==
    manifest.diff.returned =>
        \A i \in Elems(InitialDeps), l \in Elems(LatestDeps) :
            (/\ i.name = l.name
             /\ i.url # l.url
             /\ OnlyOne(InitialDeps, i.name)
             /\ OnlyOne(LatestDeps, l.name))
            => /\ Package(i) # Package(l)
               /\ Package(i) \in RemovedIds(manifest.diff)
               /\ Package(l) \in AddedIds(manifest.diff)
               /\ UpdatedIds(manifest.diff) \cap {Package(i), Package(l)} = {}

----------------------------------------------------------------------------
(* RaceSpec: the FileMap with Delete taken one step at a time. A step is   *)
(* what Delete does while it holds f.mutex, or one of the updates it makes *)
(* while it holds no lock; readers (Stats, FilesCreated, NewFiles, ...)    *)
(* take the read lock and can run between any two steps. One goroutine     *)
(* calls the mutating methods, one after the other.                        *)

RaceInit == LedgerInit

RaceFrame == UNCHANGED <<monitorVars, hist, manifest, git, life, fs, mon>>

\* Delete returns
Return(err) ==
    /\ race' = NoRace
    /\ lastOp' = [op |-> "Delete", path |-> race.top, err |-> err]

\* deleteIndividual, lines 275-281, for path: the lookup under the read lock
Lookup(top, path, recursive, toDelete) ==
    IF ~Has(files, path)
    THEN /\ race' = NoRace
         /\ lastOp' = [op |-> "Delete", path |-> top, err |-> "ErrUnknownFile"]
    ELSE /\ race' = [pc |-> "update", top |-> top, path |-> path, recursive |-> recursive,
                     isDir |-> files[path].kind = "dir",
                     pending |-> IF IsInitial(files[path]) THEN {"mark", "count"}
                                 ELSE {"remove", "decrement"},
                     toDelete |-> toDelete]
         /\ UNCHANGED lastOp

\* FileMap.Delete is called; its first step
DeleteLookup ==
    /\ race.pc = "idle"
    /\ CountersInBounds
    /\ \E path \in Paths : Lookup(path, path, TRUE, {})
    /\ UNCHANGED ledgerVars
    /\ RaceFrame

\* where deleteIndividual goes once entry and counter are updated
AfterUpdate == IF race.recursive /\ race.isDir THEN "collect" ELSE "loop"

\* deleteIndividual, lines 284-285: file.WasDeleted = true and f.filesDeleted++
\* are written with no lock held; a reader sees the two writes in either order
UpdateInitial ==
    /\ race.pc = "update"
    /\ \E w \in race.pending \cap {"mark", "count"} :
        /\ IF w = "mark"
           THEN /\ files' = [files EXCEPT ![race.path].wasDeleted = TRUE]
                /\ UNCHANGED <<filesCreated, filesDeleted>>
           ELSE /\ filesDeleted' = filesDeleted + 1
                /\ UNCHANGED <<files, filesCreated>>
        /\ race' = [race EXCEPT !.pending = @ \ {w},
                                !.pc = IF race.pending = {w} THEN AfterUpdate ELSE @]
    /\ UNCHANGED lastOp
    /\ RaceFrame

\* deleteIndividual, lines 287-289: delete(f.files, path) under the lock
UpdateRemove ==
    /\ race.pc = "update"
    /\ "remove" \in race.pending
    /\ files' = Remove(files, race.path)
    /\ race' = [race EXCEPT !.pending = @ \ {"remove"}]
    /\ UNCHANGED <<filesCreated, filesDeleted, lastOp>>
    /\ RaceFrame

\* deleteIndividual, line 290: f.filesCreated-- after the lock is released
UpdateDecrement ==
    /\ race.pc = "update"
    /\ race.pending = {"decrement"}
    /\ filesCreated' = filesCreated - 1
    /\ race' = [race EXCEPT !.pending = {}, !.pc = AfterUpdate]
    /\ UNCHANGED <<files, filesDeleted, lastOp>>
    /\ RaceFrame

\* deleteChildren, lines 301-310: toDelete is collected under the read lock
Collect ==
    /\ race.pc = "collect"
    /\ race' = [race EXCEPT !.pc = "loop", !.toDelete = ToDelete(files, race.path)]
    /\ UNCHANGED <<ledgerVars, lastOp>>
    /\ RaceFrame

\* deleteChildren, lines 312-318: deleteIndividual(path, false) for the next
\* path of toDelete, in map order; Delete returns when none is left
Loop ==
    /\ race.pc = "loop"
    /\ IF race.toDelete = {} THEN Return("nil")
       ELSE \E q \in race.toDelete : Lookup(race.top, q, FALSE, race.toDelete \ {q})
    /\ UNCHANGED ledgerVars
    /\ RaceFrame

\* the other mutating methods run to completion under the lock
RaceAdd ==
    /\ race.pc = "idle"
    /\ CallAddFile \/ CallAddNewPath

RaceNext ==
    \/ RaceAdd
    \/ DeleteLookup
    \/ UpdateInitial
    \/ UpdateRemove
    \/ UpdateDecrement
    \/ Collect
    \/ Loop

RaceSpec == RaceInit /\ [][RaceNext]_vars

\* C14: every ledger state a concurrent reader can observe while mutators are
\* running is one in which each mutating operation's update of entry and
\* counter has happened as a whole: a step of Delete that changes the ledger
\* makes the whole change deleteIndividual makes for its path, entry and
\* counter together, so that no reader sees the map changed without the
\* matching counter change or the reverse.
C14_DeleteUpdatesAtOnce ==
    [][race.pc = "update" =>
          \/ CurLedger' = CurLedger
          \/ Ledger(files', filesCreated', filesDeleted') = DeleteEntry(CurLedger, race.path)]_vars

----------------------------------------------------------------------------
(* GitSpec: the git Monitor (pkg/git). Run, every Update and every         *)
(* pushEvent is a goroutine of its own; the file monitor the git Monitor   *)
(* owns is the source of the notifications Run receives.                   *)

MaxCommits == 2
MaxSpawned == 3

\* GitEvents: make(chan Event, 10)
GitEventsCap == 10

GitFrame == UNCHANGED <<ledgerVars, lastOp, monitorVars, hist, manifest, race, life, fs,
                        mon>>

GitInit ==
    /\ files = <<>>
    /\ filesCreated = 0
    /\ filesDeleted = 0
    /\ lastOp = [op |-> "none", path |-> <<>>, err |-> "nil"]
    /\ MonitorIdle
    /\ OthersIdle

\* the goroutines started so far stay within the model's bound
MaySpawn == git.spawned < MaxSpawned

\* go m.Update(c)
GoUpdate(g, c) == [g EXCEPT !.updates[c] = @ + 1, !.spawned = @ + 1]

\* go m.pushEvent(c, eventType)
GoPushEvent(g, c, eventType) ==
    [g EXCEPT !.pushers[<<c, eventType>>] = @ + 1, !.spawned = @ + 1]

\* NewMonitor: numCommits is 0 and the first Update runs with
\* context.Background()
NewGitMonitor ==
    /\ ~git.made
    /\ git' = GoUpdate([git EXCEPT !.made = TRUE], Background)
    /\ GitFrame

\* the user commits to the repository: HEAD moves to a new commit (commits are
\* numbered as they are made, the initial hash is 0)
Commit ==
    /\ git.made
    /\ git.commits < MaxCommits
    /\ git' = [git EXCEPT !.commits = @ + 1, !.head = @ + 1]
    /\ GitFrame

\* go m.gitMonitor.Run(ctx)
GitRun ==
    /\ git.made
    /\ git.run = "off"
    /\ git' = [git EXCEPT !.run = "select"]
    /\ GitFrame

\* Run, lines 147-148: case <-ctx.Done()
GitRunDone ==
    /\ git.run = "select"
    /\ git.cancelled
    /\ git' = [git EXCEPT !.run = "done"]
    /\ GitFrame

\* Run, lines 151-155: fileMonitor.Events is closed
GitRunClosed ==
    /\ git.run = "select"
    /\ git.watcherClosed
    /\ git' = [git EXCEPT !.run = "done"]
    /\ GitFrame

\* Run, lines 159-166: a Write of the git log file
GitLogWrite ==
    /\ git.run = "select"
    /\ ~git.watcherClosed
    /\ MaySpawn
    /\ git' = GoUpdate(git, RunCtx)
    /\ GitFrame

\* Run, lines 167-178: a Write of the remote log whose last line is a push
GitRemoteLogWrite ==
    /\ git.run = "select"
    /\ ~git.watcherClosed
    /\ MaySpawn
    /\ git' = GoPushEvent(git, RunCtx, EventTypeCommitPush)
    /\ GitFrame

\* Run, lines 184-201: an event of a git-tracked file on FileEvents
GitFileEvent ==
    /\ git.run = "select"
    /\ MaySpawn
    /\ git' = GoUpdate(git, RunCtx)
    /\ GitFrame

\* Update, run by one of the goroutines started for it, under m.mutex
Update ==
    \E c \in {Background, RunCtx} :
        /\ git.updates[c] > 0
        /\ LET g == [git EXCEPT !.updates[c] = @ - 1, !.numCommits = git.commits,
                                !.lastProcessedHash = git.head]
           IN  git' = IF git.commits # git.numCommits
                      THEN GoPushEvent(g, c, EventTypeNewCommit)
                      ELSE g
        /\ GitFrame

\* pushEvent, line 276: the select takes the send. A send on a closed channel
\* panics; on an open one it needs room in the buffer.
PushSend ==
    \E k \in DOMAIN git.pushers :
        /\ git.pushers[k] > 0
        /\ git.closed \/ Len(git.GitEvents) < GitEventsCap
        /\ git' = IF git.closed
                  THEN [git EXCEPT !.pushers[k] = @ - 1, !.panicked = TRUE]
                  ELSE [git EXCEPT !.pushers[k] = @ - 1, !.GitEvents = Append(@, k[2])]
        /\ GitFrame

\* pushEvent, lines 270-275: the select takes ctx.Done(), the parent context
\* being cancelled or the five seconds being over with the buffer full
PushDone ==
    \E k \in DOMAIN git.pushers :
        /\ git.pushers[k] > 0
        /\ \/ k[1] = RunCtx /\ git.cancelled
           \/ ~git.closed /\ Len(git.GitEvents) = GitEventsCap
        /\ git' = [git EXCEPT !.pushers[k] = @ - 1]
        /\ GitFrame

\* the consumer receives from GitEvents
GitReceive ==
    /\ git.GitEvents # <<>>
    /\ git' = [git EXCEPT !.GitEvents = Tail(@)]
    /\ GitFrame

\* cancel() of the context Run was started with
GitCancel ==
    /\ git.made
    /\ ~git.cancelled
    /\ git' = [git EXCEPT !.cancelled = TRUE]
    /\ GitFrame

\* Monitor.Close, line 256: close(m.GitEvents)
GitClose ==
    /\ git.made
    /\ ~git.closed
    /\ git' = [git EXCEPT !.closed = TRUE]
    /\ GitFrame

\* Monitor.Close, line 257: m.fileMonitor.Close() closes the watcher
GitCloseFileMonitor ==
    /\ git.closed
    /\ ~git.watcherClosed
    /\ git' = [git EXCEPT !.watcherClosed = TRUE]
    /\ GitFrame

GitNext ==
    \/ NewGitMonitor
    \/ Commit
    \/ GitRun
    \/ GitRunDone
    \/ GitRunClosed
    \/ GitLogWrite
    \/ GitRemoteLogWrite
    \/ GitFileEvent
    \/ Update
    \/ PushSend
    \/ PushDone
    \/ GitReceive
    \/ GitCancel
    \/ GitClose
    \/ GitCloseFileMonitor

GitSpec == GitInit /\ [][GitNext]_vars

\* C12: for each Monitor the channel is closed only after every goroutine that
\* can send on it has stopped: in no interleaving of Close() with Run, the
\* pending-delete sweeper or pushEvent does a send happen on a closed channel.
\* For the git Monitor: no pushEvent goroutine has sent on the closed
\* GitEvents.
C12_NoSendOnClosed == ~git.panicked

----------------------------------------------------------------------------
(* LifeSpec: the file Monitor from before Run to after Close. The steps of *)
(* Spec are those of the two goroutines while they run; here Run starts    *)
(* them, the context can be cancelled, and Close closes the watcher, waits *)
(* for the WaitGroup and closes Events.                                    *)

\* the root directory holds the directory d and the file d/f
LifeDisk == [p \in Paths |-> IF p = PathD THEN "dir" ELSE IF p = PathDF THEN "file" ELSE "none"]

\* NewMonitor; Run has not been called
LifeInit ==
    /\ files = PopulateInitialFiles(LifeDisk)
    /\ filesCreated = 0
    /\ filesDeleted = 0
    /\ lastOp = [op |-> "none", path |-> <<>>, err |-> "nil"]
    /\ pendingDeletes = <<>>
    /\ mainPc = "off"
    /\ cur = NoEvent
    /\ curPd = NoPd
    /\ sweepPc = "off"
    /\ todo = {}
    /\ sweepEv = NoEvent
    /\ reported = 0
    /\ delivered = [p \in Paths |-> NoEvent]
    /\ fault = FALSE
    /\ hist = NoHist
    /\ OthersIdle

LifeFrame ==
    UNCHANGED <<ledgerVars, lastOp, pendingDeletes, curPd, todo, sweepEv, reported, delivered,
                fault, hist, manifest, race, git, fs, mon>>

\* Run, lines 130-144: the root is watched (which fails on a closed watcher),
\* the WaitGroup is raised by two and the sweeper goroutine is started
RunStart ==
    /\ mainPc = "off"
    /\ IF life.watcherClosed
       THEN /\ mainPc' = "returned"
            /\ UNCHANGED <<sweepPc, life>>
       ELSE /\ mainPc' = "select"
            /\ sweepPc' = "wait"
            /\ life' = [life EXCEPT !.wg = @ + 2]
    /\ UNCHANGED cur
    /\ LifeFrame

\* cancel() of the context Run was called with
Cancel ==
    /\ ~life.cancelled
    /\ life' = [life EXCEPT !.cancelled = TRUE]
    /\ UNCHANGED <<mainPc, sweepPc, cur>>
    /\ LifeFrame

\* Run, lines 148-153: case <-ctx.Done(); the deferred wg.Done()
MainDone ==
    /\ Running /\ mainPc = "select"
    /\ life.cancelled
    /\ mainPc' = "returned"
    /\ life' = [life EXCEPT !.wg = @ - 1]
    /\ UNCHANGED <<sweepPc, cur>>
    /\ LifeFrame

\* Run, lines 154-157: watcher.Events is closed
MainClosed ==
    /\ Running /\ mainPc = "select"
    /\ life.watcherClosed
    /\ mainPc' = "returned"
    /\ life' = [life EXCEPT !.wg = @ - 1]
    /\ UNCHANGED <<sweepPc, cur>>
    /\ LifeFrame

\* handleEvent, lines 201-202: case <-ctx.Done() instead of the send
SendCancelled ==
    /\ Running /\ mainPc = "send"
    /\ life.cancelled
    /\ mainPc' = "select"
    /\ cur' = NoEvent
    /\ UNCHANGED <<sweepPc, life>>
    /\ LifeFrame

\* Monitor.pushEvent gives up the send when the context is cancelled
PushCancelled ==
    /\ Running /\ mainPc = "c_push"
    /\ life.cancelled
    /\ mainPc' = "select"
    /\ cur' = NoEvent
    /\ UNCHANGED <<sweepPc, life>>
    /\ LifeFrame

\* processPendingDeletes, lines 280-281: case <-ctx.Done() between two passes
SweepDone ==
    /\ Running /\ sweepPc = "wait"
    /\ life.cancelled
    /\ sweepPc' = "returned"
    /\ life' = [life EXCEPT !.wg = @ - 1]
    /\ UNCHANGED <<mainPc, cur>>
    /\ LifeFrame

\* processPendingDeletes, lines 306-307: case <-ctx.Done() instead of the send;
\* the goroutine returns from inside the pass, where pendingDeleteMutex is
\* locked (line 283) and not yet unlocked (line 312)
SweepCancelled ==
    /\ Running /\ sweepPc = "send"
    /\ life.cancelled
    /\ sweepPc' = "leaked"
    /\ life' = [life EXCEPT !.wg = @ - 1]
    /\ UNCHANGED <<mainPc, cur>>
    /\ LifeFrame

\* Monitor.Close, lines 181-183: watcher.Close()
CloseWatcher ==
    /\ life.close = "no"
    /\ life' = [life EXCEPT !.close = "wait", !.watcherClosed = TRUE]
    /\ UNCHANGED <<mainPc, sweepPc, cur>>
    /\ LifeFrame

\* Monitor.Close, lines 185-186: wg.Wait() returns and Events is closed
CloseEvents ==
    /\ life.close = "wait"
    /\ life.wg = 0
    /\ life' = [life EXCEPT !.close = "done"]
    /\ UNCHANGED <<mainPc, sweepPc, cur>>
    /\ LifeFrame

\* Run, line 154: a notification is received from the watcher while it is open
Receive ==
    /\ ~life.watcherClosed
    /\ RecvOther \/ RecvRemove \/ RecvCreate

LifeNext ==
    \/ RunStart
    \/ Cancel
    \/ MainDone
    \/ MainClosed
    \/ SendCancelled
    \/ PushCancelled
    \/ SweepDone
    \/ SweepCancelled
    \/ CloseWatcher
    \/ CloseEvents
    \/ Receive
    \/ RrMark
    \/ RrStore
    \/ CreateLock
    \/ CreateSwap
    \/ CreateAdd
    \/ CreateWalk
    \/ PushEvent
    \/ SendEvent
    \/ SweepTick
    \/ SweepVisit
    \/ SweepSend
    \/ SweepEnd
    \/ Tick

LifeSpec == LifeInit /\ [][LifeNext]_vars

\* the main loop waits for pendingDeleteMutex
WaitsForMutex == mainPc \in {"rr_lock", "c_lock"}

\* C13: after the context is cancelled, the main loop and the pending-delete
\* sweeper both terminate from every state they can be in (including while
\* blocked sending on Events or waiting for pendingDeleteMutex), so that a
\* Close() called after cancellation returns. Hence after cancellation a
\* goroutine that has not returned is never left waiting for a mutex whose
\* holder has returned.
C13_NoneStuckAfterCancel == life.cancelled => ~(WaitsForMutex /\ sweepPc = "leaked")

\* Events is closed and a goroutine is at a send on it
SendsOnClosed ==
    /\ life.close = "done"
    /\ mainPc \in {"send", "c_push"} \/ sweepPc = "send"

\* the file Monitor closes Events only when no goroutine can send on it
EventsClosedLast == ~SendsOnClosed

----------------------------------------------------------------------------
(* Write counts.                                                           *)

\* the write count of p the user sees: its value in WrittenFiles, 0 if p is
\* not listed
WriteCount(fm, p) == IF p \in DOMAIN WrittenFiles(fm) THEN WrittenFiles(fm)[p] ELSE 0

\* this step is a call op(p) that returned nil
Returned(op, p) == lastOp' = [op |-> op, path |-> p, err |-> "nil"] /\ vars' # vars

\* C21 as stated: each detected editor swap on a path p increases p's
\* user-visible write count (its value in WrittenFiles) by exactly 1 relative
\* to its value before the swap, for any number of earlier writes and earlier
\* swaps on p.
C21_SwapAddsOneWrite ==
    [][\A p \in Paths :
          Returned("AddSwapWrite", p) => WriteCount(files', p) = WriteCount(files, p) + 1]_vars

\* C21 amended: each detected editor swap on p sets p's user-visible write
\* count to exactly 1 and moves the writes counted before it to preSwapWrites;
\* the count increases by exactly 1 only if p had no counted write before.
C21_SwapSetsOneWrite ==
    [][\A p \in Paths :
          Returned("AddSwapWrite", p) =>
              /\ WriteCount(files', p) = 1
              /\ files'[p].preSwapWrites = files[p].preSwapWrites + files[p].writes
              /\ (WriteCount(files', p) = WriteCount(files, p) + 1) <=>
                     (WriteCount(files, p) = 0)]_vars

\* a swap of d has been recorded after one counted write of d
C21_Witness ==
    /\ lastOp = [op |-> "AddSwapWrite", path |-> PathD, err |-> "nil"]
    /\ files[PathD].writes = 1
    /\ files[PathD].preSwapWrites = 1

\* C22: AddWrite(p) on a tracked entry increments writes by exactly 1 when
\* pendingSwap is false and changes nothing when pendingSwap is true, so that
\* between MarkPendingSwap(p) at a Remove and the resolution of the pending
\* delete no write raises p's writes.
C22_AddWriteUnlessPendingSwap ==
    [][\A p \in Paths :
          Returned("AddWrite", p) =>
              IF files[p].pendingSwap
              THEN CurLedger' = CurLedger
              ELSE Ledger(files', filesCreated', filesDeleted') =
                       [CurLedger EXCEPT !.files[p].writes = @ + 1]]_vars

\* AddWrite(d) has just returned nil with nothing counted: d's pendingSwap is
\* set and its writes are still 0
C22_Witness ==
    /\ lastOp = [op |-> "AddWrite", path |-> PathD, err |-> "nil"]
    /\ files[PathD].pendingSwap
    /\ files[PathD].writes = 0


----------------------------------------------------------------------------
(* WalkSpec: startup population and the walk of a new directory, over a    *)
(* tree that changes while the monitor runs. Each handler is one step.     *)

\* the tree is well formed: what exists lies in a directory
WellFormed(disk) ==
    \A p \in Paths, q \in Paths :
        (IsDescendant(q, p) /\ disk[q] # "none") => disk[p] = "dir"

\* the directory a path lies in, the root being the empty path
ParentDir(p) ==
    IF \E d \in Paths : IsDescendant(p, d)
    THEN CHOOSE d \in Paths : IsDescendant(p, d)
    ELSE <<>>

\* fsnotify reports what happens in a directory it watches; the root is watched
Watched(watched, p) == ParentDir(p) = <<>> \/ ParentDir(p) \in watched

\* the directories filepath.WalkDir visits from path, path included
WalkDirs(disk, path) ==
    {q \in Paths : disk[q] = "dir" /\ (q = path \/ IsDescendant(q, path))}

\* NewMonitor on a tree, and Run's WatchDirRecursive(root, true), which watches
\* every directory and adds nothing
WalkInit ==
    /\ \E disk \in InitialDisks :
        /\ files = PopulateInitialFiles(disk)
        /\ fs = [NoFs EXCEPT !.disk = disk, !.initial = disk,
                             !.watched = {q \in Paths : disk[q] = "dir"}]
    /\ filesCreated = 0
    /\ filesDeleted = 0
    /\ lastOp = [op |-> "none", path |-> <<>>, err |-> "nil"]
    /\ MonitorIdle
    /\ manifest = NoManifest
    /\ race = NoRace
    /\ git = NoGit
    /\ life = NoLife
    /\ mon = NoMon

WalkFrame == UNCHANGED <<lastOp, pendingDeletes, mainPc, curPd, sweepPc, todo, sweepEv, fault,
                         hist, manifest, race, git, life, mon>>

\* somebody makes a file or a directory; the watcher queues a Create
\* notification if it watches the directory the path lies in
MakePath ==
    \E p \in Paths, kind \in {"file", "dir"} :
        /\ fs.disk[p] = "none"
        /\ WellFormed([fs.disk EXCEPT ![p] = kind])
        /\ fs' = [fs EXCEPT !.disk[p] = kind,
                            !.queue = IF Watched(fs.watched, p) THEN @ \cup {p} ELSE @]
        /\ UNCHANGED <<ledgerVars, cur, reported, delivered>>
        /\ WalkFrame

\* somebody removes a path and all below it; the kernel drops the watches
RemovePath ==
    \E p \in Paths :
        /\ fs.disk[p] # "none"
        /\ fs' = [fs EXCEPT
                    !.disk = [q \in Paths |->
                                IF q = p \/ IsDescendant(q, p) THEN "none" ELSE @[q]],
                    !.watched = {q \in @ : q # p /\ ~IsDescendant(q, p)}]
        /\ UNCHANGED <<ledgerVars, cur, reported, delivered>>
        /\ WalkFrame

\* handleCreate, lines 47-97, for a queued Create notification and no pending
\* delete: duplicate check, os.Stat, AddFile; for a directory the settle delay
\* and WatchDirRecursive(name, false), which watches and adds the directories
\* it visits and returns nil for everything else; then pushEvent
HandleCreate ==
    \E name \in fs.queue :
        /\ reported < MaxNotifications
        /\ ~SwapDetected(pendingDeletes, name)
        /\ reported' = reported + 1
        /\ LET stat == fs.disk[name]
               ev == NewEvent(name, {"Create"}, reported + 1)
               r == AddFile(CurLedger, name, NewFileInfo(FileTypeNew, stat))
               dirs == WalkDirs(fs.disk, name)
               outcome == IF DuplicateCreate(files, name) THEN "duplicate"
                          ELSE IF stat = "none" THEN "stat"
                          ELSE IF r.err # "nil" THEN "add"
                          ELSE IF AfterAdd(stat) = "c_walk" THEN "walked"
                          ELSE "added"
           IN  /\ fs' = [fs EXCEPT !.queue = @ \ {name},
                                   !.watched = IF outcome = "walked" THEN @ \cup dirs ELSE @,
                                   !.event = [name |-> name, op |-> {"Create"},
                                              outcome |-> outcome]]
               /\ SetLedger(CASE outcome = "walked" -> WalkAdd(r.l, dirs, {})
                              [] outcome \in {"added", "add"} -> r.l
                              [] OTHER -> CurLedger)
               /\ delivered' = IF outcome \in {"walked", "added"}
                               THEN [delivered EXCEPT ![name] = ev] ELSE delivered
        /\ UNCHANGED cur
        /\ WalkFrame

WalkNext ==
    \/ MakePath
    \/ RemovePath
    \/ HandleCreate

WalkSpec == WalkInit /\ [][WalkNext]_vars

\* the paths of the given kind in a tree
OfKind(disk, kind) == {p \in DOMAIN disk : disk[p] = kind}

\* C23: after startup population (no notification handled yet) the ledger holds
\* exactly one Initial entry for each non-directory file of the tree the monitor
\* was started on, and no entry for a directory
C23_InitialEntriesAreFiles ==
    reported = 0 =>
        /\ DOMAIN files = OfKind(fs.initial, "file")
        /\ \A p \in DOMAIN files : IsInitial(files[p]) /\ files[p].kind # "dir"

\* the handler has just walked the new directory d
Walked(d) ==
    /\ reported' = reported + 1
    /\ fs'.event = [name |-> d, op |-> {"Create"}, outcome |-> "walked"]

\* C24: when the Create notification of a new directory d has been handled,
\* every directory and every file that is under d at the time of the walk is
\* tracked as New
C24_WalkTracksAllBelow ==
    [][\A d \in Paths : Walked(d) =>
          \A q \in Paths :
              (IsDescendant(q, d) /\ fs.disk[q] # "none") =>
                  /\ Has(files', q)
                  /\ files'[q].fileType = FileTypeNew]_vars


----------------------------------------------------------------------------
(* NotifySpec: Run reads raw notifications, of any name and any flags.     *)

MaxRaw == 2

\* names an editor leaves behind next to d/f
NameBackup == PathDF \o <<"~">>
NameSwap == PathDF \o <<".", "s", "w", "p">>
NameNumber == <<"d", "/", "4", "2">>
NotifyNames == Paths \cup {NameBackup, NameSwap, NameNumber}

\* strings.HasSuffix
HasSuffix(s, suffix) ==
    /\ Len(suffix) <= Len(s)
    /\ SubSeq(s, Len(s) - Len(suffix) + 1, Len(s)) = suffix

RECURSIVE StripSlashes(_)
StripSlashes(s) ==
    IF s # <<>> /\ s[Len(s)] = "/" THEN StripSlashes(SubSeq(s, 1, Len(s) - 1)) ELSE s

\* filepath.Base
Base(path) ==
    IF path = <<>> THEN <<".">>
    ELSE IF StripSlashes(path) = <<>> THEN <<"/">>
    ELSE From(StripSlashes(path), LastIndex(StripSlashes(path), <<"/">>) + 1)

Digits == {"0", "1", "2", "3", "4", "5", "6", "7", "8", "9"}

\* isNumeric
isNumeric(s) == Len(s) # 0 /\ \A i \in 1..Len(s) : s[i] \in Digits

\* an ignoreEvent that knows the backup suffixes only
ignoreBackups(name) ==
    HasSuffix(Base(name), <<"~">>) \/ HasSuffix(Base(name), <<".", "s", "w", "p">>)

\* Monitor.ignoreEvent
ignoreEvent(name) ==
    \/ HasSuffix(Base(name), <<"~">>)
    \/ HasSuffix(Base(name), <<".", "s", "w", "p">>)
    \/ isNumeric(Base(name))

\* NewMonitor on the tree d/, d/f
NotifyInit ==
    /\ files = PopulateInitialFiles(LifeDisk)
    /\ filesCreated = 0
    /\ filesDeleted = 0
    /\ lastOp = [op |-> "none", path |-> <<>>, err |-> "nil"]
    /\ MonitorIdle
    /\ manifest = NoManifest
    /\ race = NoRace
    /\ git = NoGit
    /\ life = NoLife
    /\ mon = NoMon
    /\ fs = [NoFs EXCEPT !.disk = LifeDisk, !.initial = LifeDisk]

\* Monitor.handleEvent: the switch on event.Type()
handleEvent(name, op) ==
    \/ ReadCreate(name, op)
    \/ ReadRemove(name, op)
    \/ ReadOther(name, op)

\* Run, lines 154-168: a notification is read from watcher.Events; an ignored
\* one is dropped (continue), any other goes to handleEvent
RunRecv ==
    \E name \in NotifyNames, op \in SUBSET OpFlags :
        /\ reported < MaxRaw
        /\ fs' = [fs EXCEPT !.event = [name |-> name, op |-> op,
                                       outcome |-> IF ignoreEvent(name) THEN "ignored"
                                                   ELSE Type(op)]]
        /\ IF ignoreEvent(name)
           THEN /\ Running /\ mainPc = "select"
                /\ reported' = reported + 1
                /\ UNCHANGED <<ledgerVars, lastOp, pendingDeletes, mainPc, cur, curPd, sweepPc,
                               todo, sweepEv, delivered, fault, hist>>
           ELSE handleEvent(name, op)
        /\ UNCHANGED <<manifest, race, git, life, mon>>

NotifyNext ==
    \/ RunRecv
    \/ RrMark
    \/ RrStore
    \/ CreateLock
    \/ CreateSwap
    \/ CreateAdd
    \/ CreateWalk
    \/ PushEvent
    \/ SendEvent
    \/ SweepTick
    \/ SweepVisit
    \/ SweepSend
    \/ SweepEnd
    \/ Tick

NotifySpec == NotifyInit /\ [][NotifyNext]_vars

\* this step reads the notification (name, op)
Notified(name, op) ==
    /\ reported' = reported + 1
    /\ fs'.event.name = name
    /\ fs'.event.op = op

\* the order in which the flags are looked at, and the type each stands for
FlagOrder == <<"Chmod", "Create", "Remove", "Rename", "Write">>
FlagType == <<EventTypeChmod, EventTypeCreate, EventTypeRemove, EventTypeRename, EventTypeWrite>>

FirstSet(op) ==
    IF op \cap OpFlags = {} THEN EventTypeUnknown
    ELSE FlagType[Least({k \in 1..Len(FlagOrder) : FlagOrder[k] \in op})]

\* C25: for every combination of flags the type of a notification that is not
\* ignored is the first set flag in the order Chmod, Create, Remove, Rename,
\* Write, and Unknown for no flag; a notification with the Chmod flag is passed
\* on as it is and changes neither the ledger nor the pending deletes
C25_TypeIsFirstSetFlag ==
    [][\A name \in Paths, op \in SUBSET OpFlags :
          Notified(name, op) =>
              /\ fs'.event.outcome = FirstSet(op)
              /\ "Chmod" \in op =>
                    /\ mainPc' = "send"
                    /\ cur' = NewEvent(name, op, reported')
                    /\ UNCHANGED <<ledgerVars, pendingDeletes>>]_vars

C25_Witness ==
    /\ fs.event = [name |-> PathD2, op |-> {"Chmod", "Create", "Remove"},
                   outcome |-> EventTypeChmod]
    /\ mainPc = "send"
    /\ cur.op = {"Chmod", "Create", "Remove"}

\* the basename ends in "~" or ".swp" or consists of decimal digits only
IgnoredName(name) ==
    LET b == From(name, LastIndex(name, <<"/">>) + 1)
    IN  /\ b # <<>>
        /\ \/ b[Len(b)] = "~"
           \/ Len(b) >= 4 /\ SubSeq(b, Len(b) - 3, Len(b)) = <<".", "s", "w", "p">>
           \/ \A i \in 1..Len(b) : b[i] \in Digits

\* C26: a notification whose basename ends in "~" or ".swp" or is all digits
\* changes nothing in the ledger, creates and cancels no pending delete, starts
\* no handler and puts no event on Events
C26_IgnoredNamesDoNothing ==
    [][\A name \in NotifyNames, op \in SUBSET OpFlags :
          (Notified(name, op) /\ IgnoredName(name)) =>
              UNCHANGED <<ledgerVars, pendingDeletes, delivered, mainPc, cur, curPd,
                          sweepEv>>]_vars

C26_Witness ==
    /\ fs.event = [name |-> NameNumber, op |-> {"Create"}, outcome |-> "ignored"]
    /\ Has(pendingDeletes, PathDF)
    /\ mainPc = "select"


----------------------------------------------------------------------------
(* Failures while a notification is handled                                *)

\* C27: no failure while a notification is handled ends the reconciler: the
\* context is never cancelled and the watcher never closed here, so the main
\* loop has not returned and no goroutine has panicked, and later notifications
\* can still be handled
C27_FailuresKeepLoopAlive == Running /\ mainPc # "returned"


----------------------------------------------------------------------------
(* ListenerSpec: Mon with one listener. handleEvents starts a goroutine    *)
(* for every file event; the steps of handleFileEvent interleave.          *)

MaxHandlers == 2

\* the manifests the listener can be told about ("m" stands for go.mod or
\* pyproject.toml), and a file no listener watches
ManifestA == <<"m">>
ManifestB == <<"s", "/", "m">>
OtherFile == <<"s", "/", "x">>
EventNames == {ManifestA, ManifestB, OtherFile}

\* a []byte: what it holds and how long it is
Bytes(valid, lines, size) == [valid |-> valid, torn |-> FALSE, lines |-> lines, size |-> size]

\* a go.mod with one require, one with a newer version and a second require,
\* and a file modfile.Parse rejects
GoRequire(path, version) == [path |-> path, version |-> version]
GoContents ==
    {Bytes(TRUE, <<GoRequire(<<"x">>, <<"1">>)>>, 1),
     Bytes(TRUE, <<GoRequire(<<"x">>, <<"2">>), GoRequire(<<"y">>, <<"1">>)>>, 2),
     Bytes(FALSE, <<>>, 3)}

\* a pyproject.toml by its project.dependencies, and a file toml.Unmarshal rejects
PyContents ==
    {Bytes(TRUE, <<LineA1>>, 1),
     Bytes(TRUE, <<LineA2, LineGit>>, 2),
     Bytes(FALSE, <<>>, 3)}

ContentsOf(kind) == IF kind = "golang" THEN GoContents ELSE PyContents

\* a slice header put together by two unsynchronised writes: the array of one
\* content with the length of the other
Torn(c, d) == [valid |-> FALSE, torn |-> TRUE, lines |-> c.lines, size |-> d.size]

\* what a parser returns
Parsed(deps, err) == [deps |-> deps, err |-> err]

\* golang.ParseDeps
ParseDeps(content) ==
    IF ~content.valid THEN Parsed(<<>>, TRUE)
    ELSE Parsed([i \in 1..Len(content.lines) |->
                    Dependency(<<>>, content.lines[i].path, content.lines[i].version)], FALSE)

RECURSIVE NonNil(_)
NonNil(s) ==
    IF s = <<>> THEN <<>>
    ELSE IF Head(s) = NilDependency THEN NonNil(Tail(s))
    ELSE <<Head(s)>> \o NonNil(Tail(s))

\* python.ParsePyProjectToml
ParsePyProjectToml(content) ==
    IF ~content.valid THEN Parsed(<<>>, TRUE)
    ELSE Parsed(NonNil([i \in 1..Len(content.lines) |-> parsePEP508(content.lines[i])]), FALSE)

Parse(kind, content) ==
    IF kind = "golang" THEN ParseDeps(content) ELSE ParsePyProjectToml(content)

\* a nil *deps.FileDiff
NilFileDiff == [nil |-> TRUE]

\* ModFile.Diff and PyProjectFile.Diff
ModFileDiff(kind, file) ==
    IF Parse(kind, file.InitialContent).err THEN NilFileDiff
    ELSE IF Parse(kind, file.LatestContent).err THEN NilFileDiff
    ELSE Diff(Parse(kind, file.LatestContent).deps, file.Path,
              Parse(kind, file.InitialContent).deps)

RECURSIVE ListenerDiff(_, _)
\* Listener.Diff: the non-nil diffs of the tracked manifests, in their order
ListenerDiff(kind, fileSeq) ==
    IF fileSeq = <<>> THEN <<>>
    ELSE IF ModFileDiff(kind, Head(fileSeq)) = NilFileDiff
         THEN ListenerDiff(kind, Tail(fileSeq))
    ELSE <<ModFileDiff(kind, Head(fileSeq))>> \o ListenerDiff(kind, Tail(fileSeq))

\* LogEvent, EventInit: a manifest is appended
NewModFile(path, content) ==
    [Path |-> path, InitialContent |-> content, LatestContent |-> content]

\* LogEvent, EventWrite: LatestContent of every manifest with that path is replaced
SetLatest(fileSeq, name, content) ==
    [i \in 1..Len(fileSeq) |->
        IF fileSeq[i].Path = name THEN [fileSeq[i] EXCEPT !.LatestContent = content]
        ELSE fileSeq[i]]

Tracked(fileSeq) == {fileSeq[i].Path : i \in 1..Len(fileSeq)}

\* mon.New: setupListeners has sent one Init event for every manifest found
MonInit ==
    /\ files = <<>>
    /\ filesCreated = 0
    /\ filesDeleted = 0
    /\ lastOp = [op |-> "none", path |-> <<>>, err |-> "nil"]
    /\ MonitorIdle
    /\ manifest = NoManifest
    /\ race = NoRace
    /\ git = NoGit
    /\ life = NoLife
    /\ fs = NoFs
    /\ \E kind \in {"golang", "python"}, n \in 1..2 :
       \E a \in ContentsOf(kind), b \in ContentsOf(kind) :
          LET all == <<NewModFile(ManifestA, a), NewModFile(ManifestB, b)>>
              found == SubSeq(all, 1, n)
          IN  mon = [NoMon EXCEPT
                       !.kind = kind,
                       !.files = found,
                       !.inits = [q \in Tracked(found) |->
                                    IF q = ManifestA THEN a ELSE b],
                       !.logged = [q \in Tracked(found) |->
                                    {IF q = ManifestA THEN a ELSE b}]]

MonFrame == UNCHANGED <<ledgerVars, lastOp, monitorVars, hist, manifest, race, git, life, fs>>

NoBytes == Bytes(FALSE, <<>>, 0)

\* handleEvents, lines 213-219: go handleFileEvent for an event from the file
\* Monitor; only a Write goes on to the listeners
Dispatch ==
    \E name \in EventNames, type \in {EventTypeWrite, EventTypeCreate} :
        /\ Len(mon.handlers) < MaxHandlers
        /\ mon' = [mon EXCEPT !.handlers = Append(@,
                      [pc |-> IF type = EventTypeWrite THEN "lastWrite" ELSE "done",
                       name |-> name, content |-> NoBytes, diff |-> <<>>])]
        /\ MonFrame

\* handleFileEvent, line 242
SetLastWrite ==
    \E g \in DOMAIN mon.handlers :
        /\ mon.handlers[g].pc = "lastWrite"
        /\ mon' = [mon EXCEPT !.lastWrite = g, !.handlers[g].pc = "sleep"]
        /\ MonFrame

\* handleFileEvent, lines 244-264: the settle delay, the listener of that base
\* name, os.ReadFile
ReadFile ==
    \E g \in DOMAIN mon.handlers :
        /\ mon.handlers[g].pc = "sleep"
        /\ IF Base(mon.handlers[g].name) # Base(ManifestA)
           THEN mon' = [mon EXCEPT !.handlers[g].pc = "done"]
           ELSE \/ mon' = [mon EXCEPT !.handlers[g].pc = "done"]
                \/ \E content \in ContentsOf(mon.kind) :
                       mon' = [mon EXCEPT !.handlers[g].pc = "cached",
                                          !.handlers[g].content = content]
        /\ MonFrame

\* handleFileEvent, line 266: the cached diff is read
ReadCached ==
    \E g \in DOMAIN mon.handlers :
        /\ mon.handlers[g].pc = "cached"
        /\ mon' = [mon EXCEPT !.handlers[g].pc = "log"]
        /\ MonFrame

\* LogEvent, EventWrite, by one goroutine at a time
LogEventWrite ==
    \E g \in DOMAIN mon.handlers :
        /\ mon.handlers[g].pc = "log"
        /\ LET h == mon.handlers[g]
           IN  mon' = [mon EXCEPT
                         !.files = SetLatest(@, h.name, h.content),
                         !.logged = [q \in DOMAIN @ |->
                                       IF q = h.name THEN {h.content} ELSE @[q]],
                         !.handlers[g].pc = "diff"]
        /\ MonFrame

\* the golang LogEvent holds the mutex around its log line only (lines 54-58):
\* two goroutines assign LatestContent of one manifest at the same time. The
\* slice header that results is that of either write, or a mix of both when
\* the lengths differ.
LogEventRace ==
    \E g \in DOMAIN mon.handlers, k \in DOMAIN mon.handlers :
        /\ g < k
        /\ mon.kind = "golang"
        /\ mon.handlers[g].pc = "log" /\ mon.handlers[k].pc = "log"
        /\ mon.handlers[g].name = mon.handlers[k].name
        /\ LET c == mon.handlers[g].content
               d == mon.handlers[k].content
           IN  \E result \in {c, d} \cup (IF c.size # d.size
                                          THEN {Torn(c, d), Torn(d, c)} ELSE {}) :
                  mon' = [mon EXCEPT
                            !.files = SetLatest(@, mon.handlers[g].name, result),
                            !.logged = [q \in DOMAIN @ |->
                                          IF q = mon.handlers[g].name THEN {c, d} ELSE @[q]],
                            !.handlers[g].pc = "diff",
                            !.handlers[k].pc = "diff"]
        /\ MonFrame

\* handleFileEvent, line 278: listener.Diff()
CallListenerDiff ==
    \E g \in DOMAIN mon.handlers :
        /\ mon.handlers[g].pc = "diff"
        /\ mon' = [mon EXCEPT !.handlers[g].pc = "store",
                              !.handlers[g].diff = ListenerDiff(mon.kind, mon.files)]
        /\ MonFrame

\* Listener.Diff reads the manifests without the mutex: the read of goroutine g
\* overlaps the assignment of LatestContent by goroutine k. For that manifest
\* Diff sees the old header, the new one, or a mix of both when the lengths
\* differ.
DiffRace ==
    \E g \in DOMAIN mon.handlers, k \in DOMAIN mon.handlers :
        /\ mon.handlers[g].pc = "diff" /\ mon.handlers[k].pc = "log"
        /\ mon.handlers[k].name \in Tracked(mon.files)
        /\ LET name == mon.handlers[k].name
               d == mon.handlers[k].content
               old == {mon.files[i].LatestContent :
                          i \in {j \in 1..Len(mon.files) : mon.files[j].Path = name}}
           IN  \E c \in old :
               \E seen \in {c, d} \cup (IF c.size # d.size
                                        THEN {Torn(c, d), Torn(d, c)} ELSE {}) :
                  mon' = [mon EXCEPT
                            !.files = SetLatest(@, name, d),
                            !.logged = [q \in DOMAIN @ |-> IF q = name THEN {d} ELSE @[q]],
                            !.handlers[k].pc = "diff",
                            !.handlers[g].pc = "store",
                            !.handlers[g].diff =
                                ListenerDiff(mon.kind, SetLatest(mon.files, name, seen))]
        /\ MonFrame

\* handleFileEvent, line 280: the diff is stored in listenerDiffsCached
StoreDiff ==
    \E g \in DOMAIN mon.handlers :
        /\ mon.handlers[g].pc = "store"
        /\ mon' = [mon EXCEPT !.handlers[g].pc = "done",
                              !.cached = TRUE,
                              !.cache = mon.handlers[g].diff]
        /\ MonFrame

ListenerNext ==
    \/ Dispatch
    \/ SetLastWrite
    \/ ReadFile
    \/ ReadCached
    \/ LogEventWrite
    \/ LogEventRace
    \/ CallListenerDiff
    \/ DiffRace
    \/ StoreDiff

ListenerSpec == MonInit /\ [][ListenerNext]_vars


\* C28: for every manifest the listener got an Init event for, initialContent
\* is the content of that event, and latestContent is the content of the Write
\* event logged last for its path (the Init content if there was none)
C28_ContentsFollowEvents ==
    \A i \in 1..Len(mon.files) :
        /\ mon.files[i].InitialContent = mon.inits[mon.files[i].Path]
        /\ mon.files[i].LatestContent \in mon.logged[mon.files[i].Path]

\* goroutine g has just returned from listener.Diff()
DiffReturned(g) == mon.handlers[g].pc = "diff" /\ mon'.handlers[g].pc = "store"

\* the tracked manifests both of whose snapshots parse
Parsable(fileSeq) ==
    {i \in 1..Len(fileSeq) :
        /\ ~Parse(mon.kind, fileSeq[i].InitialContent).err
        /\ ~Parse(mon.kind, fileSeq[i].LatestContent).err}

\* out holds the FileDiff of every manifest of fileSeq both of whose snapshots
\* parse, and nothing for any other
DiffOf(fileSeq, out) ==
    /\ Len(out) = Cardinality(Parsable(fileSeq))
    /\ \A i \in Parsable(fileSeq) :
          \E k \in 1..Len(out) :
              out[k] = Diff(Parse(mon.kind, fileSeq[i].LatestContent).deps, fileSeq[i].Path,
                            Parse(mon.kind, fileSeq[i].InitialContent).deps)
    /\ \A k \in 1..Len(out) : \E i \in Parsable(fileSeq) : out[k].path = fileSeq[i].Path

Access(var, path, write, locked) ==
    [var |-> var, path |-> path, write |-> write, locked |-> locked]

\* what the next step of goroutine g reads or writes, and whether it holds the
\* listener's mutex while it does
Accesses(g) ==
    LET h == mon.handlers[g]
    IN  CASE h.pc = "lastWrite" -> {Access("lastWrite", <<>>, TRUE, FALSE)}
          [] h.pc = "cached" -> {Access("listenerDiffsCached", <<>>, FALSE, FALSE)}
          [] h.pc = "store" -> {Access("listenerDiffsCached", <<>>, TRUE, FALSE)}
          [] h.pc = "log" ->
                {Access("LatestContent", q, TRUE, mon.kind = "python") :
                    q \in Tracked(mon.files) \cap {h.name}}
          [] h.pc = "diff" ->
                {Access("LatestContent", q, FALSE, FALSE) : q \in Tracked(mon.files)}
          [] OTHER -> {}

\* two goroutines are about to touch one variable, one of them writing, and
\* not both under the mutex
DataRace(g, k) ==
    \E a \in Accesses(g), b \in Accesses(k) :
        /\ a.var = b.var /\ a.path = b.path
        /\ a.write \/ b.write
        /\ ~(a.locked /\ b.locked)

\* C30: the listener's manifest contents, the cached diffs and lastWrite are
\* each touched by one goroutine at a time
C30_NoDataRace ==
    \A g \in DOMAIN mon.handlers, k \in DOMAIN mon.handlers : g # k => ~DataRace(g, k)


----------------------------------------------------------------------------
(* Contracts of the ledger calls                                           *)

\* C31: AddSwapWrite(p) on a tracked entry with writes = w and preSwapWrites = s
\* leaves it with preSwapWrites = s + w, writes = 1 and pendingSwap = false,
\* and changes no other entry and no counter
C31_SwapWriteContract ==
    [][\A p \in Paths : Returned("AddSwapWrite", p) =>
          /\ files' = [files EXCEPT ![p] =
                          [@ EXCEPT !.preSwapWrites = files[p].preSwapWrites + files[p].writes,
                                    !.writes = 1,
                                    !.pendingSwap = FALSE]]
          /\ filesCreated' = filesCreated
          /\ filesDeleted' = filesDeleted]_vars

C31_Witness ==
    /\ lastOp = [op |-> "AddSwapWrite", path |-> PathDF, err |-> "nil"]
    /\ Has(files, PathDF) /\ Has(files, PathD)
    /\ files[PathDF].preSwapWrites = 1 /\ files[PathDF].writes = 1
    /\ ~files[PathDF].pendingSwap
    /\ files[PathD].pendingSwap

\* C32: whenever the stat succeeds, AddNewPath(path) has the result and the
\* effect of AddFile(path, New-typed entry), whatever the ledger holds for path
C32_AddNewPathIsAddFile ==
    \A p \in Paths, stat \in {"file", "dir"} :
        AddNewPath(CurLedger, p, stat) = AddFile(CurLedger, p, NewFileInfo(FileTypeNew, stat))

\* C34: Delete(d) changes only the entry of d and the entries of tracked paths
\* located under d; every other tracked path (a sibling whose name starts with
\* the characters of d included) keeps its entry and its wasDeleted flag
C34_DeleteTouchesOnlySubtree ==
    [][\A d \in Paths : Returned("Delete", d) =>
          \A q \in DOMAIN files :
              (q # d /\ ~IsDescendant(q, d)) => (Has(files', q) /\ files'[q] = files[q])]_vars

\* C39: every entry of the ledger carries present file metadata (its kind is
\* "file" or "dir", never "nil"), the entries added by the recursive walk
\* included
C39_EntriesCarryMetadata == \A p \in DOMAIN files : files[p].kind \in {"file", "dir"}

----------------------------------------------------------------------------
(* Resolution of pending deletes                                           *)

\* the step destroys the pending delete stored for name: the map has no entry
\* for name afterwards, or the entry of another Remove notification
Resolves(name) ==
    /\ Has(pendingDeletes, name)
    /\ ~Has(pendingDeletes', name) \/ pendingDeletes'[name].event # pendingDeletes[name].event

\* the step is handleCreate cancelling the pending delete of name: it goes on
\* to AddSwapWrite and nothing is emitted
CancelledByCreate(name) ==
    /\ mainPc = "c_lock" /\ cur.name = name /\ mainPc' = "c_swap"
    /\ ~Has(pendingDeletes', name)
    /\ UNCHANGED <<ledgerVars, sweepPc, sweepEv, delivered>>

\* the step is the sweeper confirming the pending delete of name: Delete has
\* returned nil and the sweeper is about to send the event of the notification
ConfirmedBySweeper(name) ==
    /\ sweepPc = "pass" /\ sweepPc' = "send"
    /\ ~Has(pendingDeletes', name)
    /\ Delete(CurLedger, name).err = "nil"
    /\ files' = Delete(CurLedger, name).l.files
    /\ sweepEv' = pendingDeletes[name].event

\* C33: a pending delete is destroyed in one of two ways and never both:
\* cancelled by a Create (no event) or confirmed by the sweeper (Delete and the
\* event of its Remove notification)
C33_ResolvedOneWay ==
    [][\A name \in Paths : Resolves(name) =>
          /\ CancelledByCreate(name) \/ ConfirmedBySweeper(name)
          /\ ~(CancelledByCreate(name) /\ ConfirmedBySweeper(name))]_vars

----------------------------------------------------------------------------
(* CounterSpec: the FileMap with two goroutines calling its mutators, the  *)
(* event loop AddFile (handleCreate) and the sweeper Delete. AddFile holds *)
(* f.mutex for the whole call; Delete holds it for the lookup and for the  *)
(* map delete only and updates the counters with no lock held. f.x++ and   *)
(* f.x-- are a load and a store. In this specification race holds the      *)
(* position of both goroutines: del for Delete, add for AddFile, and the   *)
(* history of the calls that overlap.                                      *)

MaxAdds == 2

NoDel == [pc |-> "idle", path |-> <<>>, recursive |-> FALSE, isDir |-> FALSE,
          counter |-> "none", loaded |-> 0, toDelete |-> {}]

NoAdd == [pc |-> "idle", path |-> <<>>, info |-> NewFileInfo(FileTypeNew, "file"), loaded |-> 0]

NoCalls == [base |-> Ledger(<<>>, 0, 0), adds |-> <<>>, del |-> <<>>]

CounterInit ==
    /\ \E disk \in InitialDisks : files = PopulateInitialFiles(disk)
    /\ filesCreated = 0
    /\ filesDeleted = 0
    /\ lastOp = [op |-> "none", path |-> <<>>, err |-> "nil"]
    /\ MonitorIdle
    /\ manifest = NoManifest /\ git = NoGit /\ life = NoLife /\ fs = NoFs /\ mon = NoMon
    /\ race = [del |-> NoDel, add |-> NoAdd, calls |-> NoCalls]

CounterFrame == UNCHANGED <<lastOp, monitorVars, hist, manifest, git, life, fs, mon>>

\* the counters stay within the model's bounds; a lost update can take
\* filesCreated below zero
CountersInRange == CountersInBounds /\ filesCreated > -MaxCount

\* no call is in progress
Quiet == race.del.pc = "idle" /\ race.add.pc = "idle"

\* history: a call that starts while no call is in progress opens a new window,
\* the return of the last call in progress closes it
Window == IF Quiet THEN [NoCalls EXCEPT !.base = CurLedger] ELSE race.calls

Close(r) ==
    IF r.del.pc = "idle" /\ r.add.pc = "idle" THEN [r EXCEPT !.calls = NoCalls] ELSE r

\* deleteIndividual, lines 275-281, for path: the lookup under the read lock
CounterLookup(del, path, recursive, toDelete) ==
    IF ~Has(files, path) THEN NoDel
    ELSE [pc |-> IF IsInitial(files[path]) THEN "mark" ELSE "remove",
          path |-> path, recursive |-> recursive,
          isDir |-> files[path].kind = "dir",
          counter |-> IF IsInitial(files[path]) THEN "filesDeleted" ELSE "filesCreated",
          loaded |-> 0, toDelete |-> toDelete]

\* the sweeper calls FileMap.Delete; the read lock needs AddFile not to hold
\* the mutex
DeleteBegin ==
    /\ race.del.pc = "idle" /\ race.add.pc = "idle"
    /\ CountersInRange
    /\ \E path \in Paths :
          race' = Close([race EXCEPT !.del = CounterLookup(@, path, TRUE, {}),
                               !.calls = [Window EXCEPT !.del = path]])
    /\ UNCHANGED ledgerVars
    /\ CounterFrame

\* deleteIndividual, line 284: file.WasDeleted = true, no lock held
DeleteMark ==
    /\ race.del.pc = "mark"
    /\ files' = [files EXCEPT ![race.del.path].wasDeleted = TRUE]
    /\ race' = [race EXCEPT !.del.pc = "load"]
    /\ UNCHANGED <<filesCreated, filesDeleted>>
    /\ CounterFrame

\* deleteIndividual, lines 287-289: delete(f.files, path) under the lock
DeleteRemove ==
    /\ race.del.pc = "remove" /\ race.add.pc = "idle"
    /\ files' = Remove(files, race.del.path)
    /\ race' = [race EXCEPT !.del.pc = "load"]
    /\ UNCHANGED <<filesCreated, filesDeleted>>
    /\ CounterFrame

\* deleteIndividual, lines 285 and 290: the counter is read, no lock held
DeleteLoad ==
    /\ race.del.pc = "load"
    /\ race' = [race EXCEPT !.del.pc = "store",
                            !.del.loaded = IF race.del.counter = "filesDeleted"
                                           THEN filesDeleted ELSE filesCreated]
    /\ UNCHANGED ledgerVars
    /\ CounterFrame

\* deleteIndividual, lines 285 and 290: the counter is written, no lock held
DeleteStore ==
    /\ race.del.pc = "store"
    /\ IF race.del.counter = "filesDeleted"
       THEN filesDeleted' = race.del.loaded + 1 /\ UNCHANGED filesCreated
       ELSE filesCreated' = race.del.loaded - 1 /\ UNCHANGED filesDeleted
    /\ race' = [race EXCEPT !.del.pc = IF race.del.recursive /\ race.del.isDir
                                       THEN "collect" ELSE "loop"]
    /\ UNCHANGED files
    /\ CounterFrame

\* deleteChildren, lines 301-310: toDelete is collected under the read lock
DeleteCollect ==
    /\ race.del.pc = "collect" /\ race.add.pc = "idle"
    /\ race' = [race EXCEPT !.del.pc = "loop",
                            !.del.toDelete = ToDelete(files, race.del.path)]
    /\ UNCHANGED ledgerVars
    /\ CounterFrame

\* deleteChildren, lines 312-318: deleteIndividual(path, false) for the next
\* path of toDelete; Delete returns when none is left or a path is unknown
DeleteLoop ==
    /\ race.del.pc = "loop" /\ race.add.pc = "idle"
    /\ IF race.del.toDelete = {}
       THEN race' = Close([race EXCEPT !.del = NoDel])
       ELSE \E q \in race.del.toDelete :
               race' = Close([race EXCEPT !.del = CounterLookup(@, q, FALSE,
                                                                     race.del.toDelete \ {q})])
    /\ UNCHANGED ledgerVars
    /\ CounterFrame

\* the entry Delete is updating; the event loop adds other paths meanwhile
Updating == IF race.del.pc \in {"mark", "remove", "load", "store"} THEN {race.del.path} ELSE {}

\* the event loop calls FileMap.AddFile (handleCreate and the walk add New
\* entries), lines 52-66: the lock is taken, the entry looked up and, where
\* the call counts the file, filesCreated read
AddBegin ==
    /\ race.add.pc = "idle"
    /\ CountersInRange
    /\ Len(Window.adds) < MaxAdds
    /\ \E path \in Paths \ Updating, kind \in {"file", "dir"} :
          LET info == NewFileInfo(FileTypeNew, kind)
              r == AddFile(CurLedger, path, info)
              calls == [Window EXCEPT !.adds = Append(@, [path |-> path, info |-> info])]
          IN  IF r.l.filesCreated = filesCreated
              THEN /\ files' = r.l.files
                   /\ race' = Close([race EXCEPT !.calls = calls])
              ELSE /\ files' = files
                   /\ race' = [race EXCEPT !.calls = calls,
                                           !.add = [pc |-> "store", path |-> path,
                                                    info |-> info, loaded |-> filesCreated]]
    /\ UNCHANGED <<filesCreated, filesDeleted>>
    /\ CounterFrame

\* FileMap.AddFile, lines 63-72: filesCreated is written, the entry stored and
\* the lock released
AddEnd ==
    /\ race.add.pc = "store"
    /\ filesCreated' = race.add.loaded + 1
    /\ files' = Put(files, race.add.path, race.add.info)
    /\ race' = Close([race EXCEPT !.add = NoAdd])
    /\ UNCHANGED filesDeleted
    /\ CounterFrame

CounterNext ==
    \/ DeleteBegin
    \/ DeleteMark
    \/ DeleteRemove
    \/ DeleteLoad
    \/ DeleteStore
    \/ DeleteCollect
    \/ DeleteLoop
    \/ AddBegin
    \/ AddEnd

CounterSpec == CounterInit /\ [][CounterNext]_vars

RECURSIVE ApplyAdds(_, _, _, _)
\* the AddFile calls adds[i..j] made one after the other on the ledger l
ApplyAdds(l, adds, i, j) ==
    IF i > j THEN l
    ELSE ApplyAdds(AddFile(l, adds[i].path, adds[i].info).l, adds, i + 1, j)

\* the ledgers the calls of the window produce when they are made one after
\* the other, in the order of each goroutine
Sequential(calls) ==
    IF calls.del = <<>>
    THEN {ApplyAdds(calls.base, calls.adds, 1, Len(calls.adds))}
    ELSE {ApplyAdds(Delete(ApplyAdds(calls.base, calls.adds, 1, k), calls.del).l,
                    calls.adds, k + 1, Len(calls.adds)) : k \in 0..Len(calls.adds)}

\* C35: when the last of the overlapping AddFile and Delete calls returns, the
\* two counters have the values some sequential order of the same calls
\* produces
C35_CountersLinearizable ==
    [][(~Quiet /\ Quiet') =>
          \E l \in Sequential(race.calls) :
              filesCreated' = l.filesCreated /\ filesDeleted' = l.filesDeleted]_vars

----------------------------------------------------------------------------
(* The monitor's locks and shutdown                                        *)

\* pendingDeleteMutex is locked by the sweeper goroutine: from the Lock of
\* line 283 on, until the Unlock of line 312
LockedBySweeper == sweepPc \in {"pass", "send", "leaked"}

\* the sweeper goroutine has returned from processPendingDeletes
SweeperReturned == sweepPc \in {"returned", "leaked"}

\* C36: pendingDeleteMutex is released on every exit path of the sections that
\* acquire it: a goroutine that has left such a section no longer holds it (the
\* main loop holds it within one step only; the sweeper must not return with
\* the mutex locked)
C36_MutexReleasedOnExit == ~(SweeperReturned /\ LockedBySweeper)

\* a step of the main loop goroutine
MainStep ==
    \/ MainDone \/ MainClosed \/ SendCancelled \/ PushCancelled
    \/ RrMark \/ RrStore \/ CreateLock \/ CreateSwap \/ CreateAdd \/ CreateWalk
    \/ PushEvent \/ SendEvent

\* a step of the sweeper goroutine
SweepStep ==
    \/ SweepDone \/ SweepCancelled \/ SweepTick \/ SweepVisit \/ SweepSend \/ SweepEnd

\* LifeSpec with the scheduler's fairness: a goroutine that can take a step
\* takes one, the consumer takes the events offered, time passes, and Close
\* goes on when wg.Wait() can return. Cancelling the context, closing the
\* monitor and further notifications are up to the environment.
LifeFairSpec ==
    /\ LifeSpec
    /\ WF_vars(RunStart)
    /\ WF_vars(MainStep)
    /\ WF_vars(SweepStep)
    /\ WF_vars(CloseEvents)
    /\ WF_vars(Tick)

\* C37: once Close has closed the watcher, Run returns, the sweeper it started
\* terminates and Close returns, also when the context is never cancelled
C37_CloseReturnsAfterShutdown ==
    (life.close = "wait") ~> (life.close = "done" \/ life.cancelled \/ fault)

----------------------------------------------------------------------------
(* Order of the manifest contents                                          *)

\* the goroutines, in the order of their events, that read the manifest name
\* for a Write event
Readers(name) ==
    {g \in DOMAIN mon.handlers :
        mon.handlers[g].name = name /\ mon.handlers[g].content # NoBytes}

\* every event dispatched so far has been handled to the end
AllHandled == \A g \in DOMAIN mon.handlers : mon.handlers[g].pc = "done"

\* C38: once every Write event has been handled, latestContent of a manifest
\* is the content read for the last Write event of its path
C38_LastWriteWins ==
    AllHandled =>
        \A i \in 1..Len(mon.files) :
            LET R == Readers(mon.files[i].Path)
            IN  R # {} =>
                  mon.files[i].LatestContent =
                      mon.handlers[CHOOSE g \in R : \A k \in R : k <= g].content

----------------------------------------------------------------------------
(* GitHeadSpec: the git Monitor with a user who also rewrites the last     *)
(* commit.                                                                 *)

MaxHead == 3

\* git commit --amend on a commit made since the monitor started: HEAD moves
\* to a new commit, the number of commits since the initial hash stays
Amend ==
    /\ git.made
    /\ git.commits > 0
    /\ git.head < MaxHead
    /\ git' = [git EXCEPT !.head = @ + 1]
    /\ GitFrame

GitHeadNext == GitNext \/ Amend

GitHeadSpec == GitInit /\ [][GitHeadNext]_vars

\* the step is an Update started with context c running to its end
UpdateRuns(c) == git'.updates[c] = git.updates[c] - 1

\* the pushEvent goroutines for NewCommit the step starts
NewCommitsStarted(c) ==
    git'.pushers[<<c, EventTypeNewCommit>>] - git.pushers[<<c, EventTypeNewCommit>>]

\* C40: HEAD having moved to a new commit, the git Monitor offers a NewCommit
\* event: the Update that finds HEAD at another commit than the one processed
\* last starts the pushEvent for it, also when the number of commits since the
\* initial hash is the same
C40_HeadChangeOffersNewCommit ==
    [][\A c \in {Background, RunCtx} :
          (UpdateRuns(c) /\ git.head # git.lastProcessedHash) => NewCommitsStarted(c) >= 1]_vars

============================================================================
